---- MODULE Spec2Model ----
(***************************************************************************)
(* A model of the query-fragment optimizer of apollo-federation:           *)
(*   - the selection map (operation/selection_map.rs),                     *)
(*   - the selection-set algebra, the fragment matcher, the field-merge    *)
(*     validator, the reuse engine and the fragment reducer                *)
(*     (operation/optimize.rs).                                            *)
(*                                                                         *)
(* Six specifications share the module:                                    *)
(*   SpecMap        the SelectionMap API driven by arbitrary calls;        *)
(*   SpecAlgebra    minus / intersection / containment on pairs of sets;   *)
(*   Spec           Operation::reuse_fragments on operations and catalogs; *)
(*   SpecOperation  the same on named operations with variables;           *)
(*   SpecApply      try_apply_fragments on one selection set;              *)
(*   SpecMatch      the fragment matcher on one catalog.                   *)
(* Each one freezes the variables of the others.                           *)
(***************************************************************************)
EXTENDS Integers, Sequences, FiniteSets, TLC

VARIABLES
    maps,       \* SpecMap: two SelectionMap values, maps[1] and maps[2]
    last,       \* SpecMap: what the last SelectionMap call was and returned
    panicked,   \* SpecMap: an assert! of selection_map.rs has failed
    lhs,        \* SpecAlgebra: the selection set `self`
    rhs,        \* SpecAlgebra: the selection set `other`
    out,        \* SpecAlgebra: the last operation applied and its result
    operation,  \* Spec: the Operation being optimized
    given,      \* Spec: the catalog of named fragments given to reuse_fragments
    before,     \* Spec: the selection set of the operation before any call
    outcome,    \* Spec: the last call: [ok, min_usages, previous]
    calls,      \* Spec: the number of calls of reuse_fragments so far
    site,       \* SpecApply, SpecMatch: the selection set and catalog at hand
    applied     \* SpecApply, SpecMatch: the last function applied and its result

vars == <<maps, last, panicked, lhs, rhs, out,
          operation, given, before, outcome, calls, site, applied>>

(***************************************************************************)
(* Selections.  A selection is a record; `selection_set` is an Option,     *)
(* written as a sequence of length 0 (None) or 1 (Some).  A selection set  *)
(* is [type_position, selections], the selections in insertion order.      *)
(***************************************************************************)
None == <<>>

Some(x) == <<x>>

NoDirectives == <<>>

FieldSel(response_name, field_name, arguments, directives, sub) ==
    [kind |-> "Field", name |-> response_name, field_name |-> field_name,
     arguments |-> arguments, directives |-> directives,
     type_condition |-> "", selection_set |-> sub]

InlineSel(type_condition, directives, ss) ==
    [kind |-> "InlineFragment", name |-> "", field_name |-> "",
     arguments |-> 0, directives |-> directives,
     type_condition |-> type_condition, selection_set |-> Some(ss)]

SpreadSel(fragment_name, type_condition, directives, body) ==
    [kind |-> "FragmentSpread", name |-> fragment_name, field_name |-> "",
     arguments |-> 0, directives |-> directives,
     type_condition |-> type_condition, selection_set |-> Some(body)]

SelSet(type_position, selections) ==
    [type_position |-> type_position, selections |-> selections]

\* HasSelectionKey::key: response name / type condition / fragment name,
\* plus the directive list.  Arguments and sub-selections are not in the key.
Key(sel) ==
    [kind |-> sel.kind,
     name |-> IF sel.kind = "InlineFragment" THEN sel.type_condition ELSE sel.name,
     directives |-> sel.directives]

Range(seq) == {seq[i] : i \in DOMAIN seq}

KeysOf(selections) == {Key(selections[i]) : i \in DOMAIN selections}

\* No two entries of a sequence of selections have the same key.
UniqueKeys(selections) ==
    \A i, j \in DOMAIN selections :
        Key(selections[i]) = Key(selections[j]) => i = j

(***************************************************************************)
(* SelectionMap: `selections` is the Vec<Selection>, `table` the set of    *)
(* indices held by the RawTable<usize>, `capacity` the table's capacity.   *)
(* A lookup probes the table for an index whose selection has the key;     *)
(* when several indices match, which one the probe meets first depends on  *)
(* the table layout, so a lookup is a choice among the matching indices.   *)
(***************************************************************************)
MaxSelections == 2

new == [selections |-> <<>>, table |-> {}, capacity |-> 0]

len(map) == Len(map.selections)

is_empty(map) == map.selections = <<>>

values(map) == map.selections

\* The indices a probe for `key` can return (RawTable::find with the eq closure).
TableFind(map, key) ==
    {i \in map.table : i \in DOMAIN map.selections /\ Key(map.selections[i]) = key}

contains_key(map, key) == TableFind(map, key) # {}

\* The selections get(key) can return; {} stands for Option::None.
get(map, key) == {map.selections[i] : i \in TableFind(map, key)}

\* hashbrown grows a full table: 0 -> 3 -> 7 -> 14 slots of capacity.
GrownCapacity(capacity) ==
    IF capacity = 0 THEN 3 ELSE IF capacity = 3 THEN 7 ELSE 2 * capacity

raw_insert(map, value) ==
    [selections |-> Append(map.selections, value),
     table |-> map.table \cup {Len(map.selections) + 1},
     capacity |-> IF Cardinality(map.table) >= map.capacity
                  THEN GrownCapacity(map.capacity) ELSE map.capacity]

\* The assert! at the top of rebuild_table_no_grow.
RebuildAssertHolds(map) == map.capacity >= Len(map.selections)

\* A variant that leaves the table as remove and retain found it.
rebuild_table_no_grow_skipped(map) == map

rebuild_table_no_grow(map) ==
    [map EXCEPT !.table = DOMAIN map.selections]

insert(map, value) == raw_insert(map, value)

RemoveAt(seq, i) == SubSeq(seq, 1, i - 1) \o SubSeq(seq, i + 1, Len(seq))

\* remove(key) when the probe returned `index`: the entry leaves the table and
\* the vector, then the table is rebuilt.
RemoveIndex(map, index) ==
    rebuild_table_no_grow(
        [map EXCEPT !.table = map.table \ {index},
                    !.selections = RemoveAt(map.selections, index)])

RECURSIVE FilterSeq(_, _)
FilterSeq(seq, keep) ==
    IF seq = <<>> THEN <<>>
    ELSE (IF Head(seq) \in keep THEN <<Head(seq)>> ELSE <<>>)
         \o FilterSeq(Tail(seq), keep)

\* retain(predicate), the predicate given as the set of selections it accepts.
RetainedVec(map, keep) == [map EXCEPT !.selections = FilterSeq(map.selections, keep)]

retain(map, keep) ==
    LET kept == RetainedVec(map, keep)
    IN  IF Len(kept.selections) < Cardinality(kept.table)
        THEN rebuild_table_no_grow(kept) ELSE kept

\* The assert! at the end of retain.
RetainAssertHolds(map) == Len(map.selections) = Cardinality(map.table)

RECURSIVE InsertAll(_, _)
InsertAll(map, seq) ==
    IF seq = <<>> THEN map
    ELSE InsertAll(insert(map, Head(seq)), Tail(seq))

extend(map, other) == InsertAll(map, values(other))

extend_ref(map, other) == InsertAll(map, values(other))

from_iter(seq) == InsertAll(new, seq)

\* entry(key): "Occupied" when the probe finds the key, else "Vacant".
entry(map, key) == IF TableFind(map, key) # {} THEN "Occupied" ELSE "Vacant"

\* VacantEntry::insert: Err on a key mismatch, else raw_insert.
VacantInsertOk(key, value) == key = Key(value)

\* A variant that inserts whatever the key of the value.
VacantInsert_unchecked(map, key, value) == raw_insert(map, value)

VacantInsert(map, key, value) ==
    IF VacantInsertOk(key, value) THEN raw_insert(map, value) ELSE map

(***************************************************************************)
(* Equality.  Selection derives PartialEq: the parts of the element and    *)
(* the sub-selection set; SelectionSet compares the parent type and the    *)
(* selection maps; SelectionMap::eq compares the sizes and then looks every*)
(* value of the left map up in the right map.                              *)
(***************************************************************************)
RECURSIVE SelEq(_, _)
RECURSIVE SetEq(_, _)
\* PartialEq of SelectionMap on selection sets (maps whose keys are unique).
SelectionsEq(a, b) ==
    /\ Len(a) = Len(b)
    /\ \A i \in DOMAIN a :
          \E j \in DOMAIN b : Key(b[j]) = Key(a[i]) /\ SelEq(a[i], b[j])

SetEq(s, t) ==
    /\ s.type_position = t.type_position
    /\ SelectionsEq(s.selections, t.selections)

SelEq(x, y) ==
    /\ x.kind = y.kind
    /\ x.name = y.name
    /\ x.field_name = y.field_name
    /\ x.arguments = y.arguments
    /\ x.directives = y.directives
    /\ x.type_condition = y.type_condition
    /\ Len(x.selection_set) = Len(y.selection_set)
    /\ (x.selection_set # None => SetEq(x.selection_set[1], y.selection_set[1]))

\* The table layouts a map can have, as the index each key's probe returns.
Lookups(map) ==
    {c \in [KeysOf(map.selections) -> DOMAIN map.selections] :
        \A k \in DOMAIN c : c[k] \in TableFind(map, k)}

\* PartialEq of SelectionMap under the lookup `c` of `other`.
EqUnder(self, other, c) ==
    /\ len(self) = len(other)
    /\ \A i \in DOMAIN self.selections :
          LET left == self.selections[i]
          IN  /\ Key(left) \in DOMAIN c
              /\ SelEq(left, other.selections[c[Key(left)]])

\* The values `self == other` can evaluate to.
eq(self, other) == {EqUnder(self, other, c) : c \in Lookups(other)}

(***************************************************************************)
(* Selection sets.  A SelectionSet is built through the merging            *)
(* constructors, so its keys are unique and a lookup is a function.        *)
(***************************************************************************)
HasKey(selections, key) == \E i \in DOMAIN selections : Key(selections[i]) = key

IndexOfKey(selections, key) ==
    CHOOSE i \in DOMAIN selections : Key(selections[i]) = key

Lookup(selections, key) == selections[IndexOfKey(selections, key)]

\* Selection::selection_set(): a fragment spread has none.
selection_set(sel) ==
    IF sel.kind = "FragmentSpread" THEN None ELSE sel.selection_set

RECURSIVE add_local_selection(_, _)
RECURSIVE add_local_selections(_, _)
\* Merging of two selections with the same key: the sub-selections are united.
MergeSelection(a, b) ==
    IF a.selection_set # None /\ b.selection_set # None /\ a.kind # "FragmentSpread"
    THEN [a EXCEPT !.selection_set =
              Some([a.selection_set[1] EXCEPT !.selections =
                        add_local_selections(@, b.selection_set[1].selections)])]
    ELSE a

add_local_selection(selections, sel) ==
    IF HasKey(selections, Key(sel))
    THEN [selections EXCEPT ![IndexOfKey(selections, Key(sel))] = MergeSelection(@, sel)]
    ELSE Append(selections, sel)

add_local_selections(selections, more) ==
    IF more = <<>> THEN selections
    ELSE add_local_selections(add_local_selection(selections, Head(more)), Tail(more))

from_raw_selections(type_position, selections) ==
    SelSet(type_position, add_local_selections(<<>>, selections))

with_updated_selections(sel, type_position, selections) ==
    [sel EXCEPT !.selection_set = Some(from_raw_selections(type_position, selections))]

\* Iterator::flatten on a sequence of Options.
RECURSIVE Flatten(_)
Flatten(opts) ==
    IF opts = <<>> THEN <<>> ELSE Head(opts) \o Flatten(Tail(opts))

(***************************************************************************)
(* Set algebra: Selection::minus / intersection and SelectionSet::minus /  *)
(* intersection.  A Selection-level result is an Option.                   *)
(***************************************************************************)
RECURSIVE minus(_, _)
RECURSIVE intersection(_, _)

\* selection_minus with the leaf case widened to "in self, so a difference".
selection_minus_widened(self, other) ==
    IF selection_set(self) # None /\ selection_set(other) # None
    THEN LET self_sub_selection == selection_set(self)[1]
             diff == minus(self_sub_selection, selection_set(other)[1])
         IN  IF diff.selections # <<>>
             THEN Some(with_updated_selections(self, self_sub_selection.type_position,
                                               diff.selections))
             ELSE None
    ELSE Some(self)

\* selection_minus that emits the child also when the difference of the
\* sub-selections is empty.
selection_minus_keeping_empty(self, other) ==
    IF selection_set(self) # None /\ selection_set(other) # None
    THEN LET self_sub_selection == selection_set(self)[1]
             diff == minus(self_sub_selection, selection_set(other)[1])
         IN  Some(with_updated_selections(self, self_sub_selection.type_position,
                                          diff.selections))
    ELSE None

selection_minus(self, other) ==
    IF selection_set(self) # None /\ selection_set(other) # None
    THEN LET self_sub_selection == selection_set(self)[1]
             diff == minus(self_sub_selection, selection_set(other)[1])
         IN  IF diff.selections # <<>>
             THEN Some(with_updated_selections(self, self_sub_selection.type_position,
                                               diff.selections))
             ELSE None
    ELSE None

minus(self, other) ==
    from_raw_selections(self.type_position,
        Flatten([i \in DOMAIN self.selections |->
            LET v == self.selections[i]
            IN  IF HasKey(other.selections, Key(v))
                THEN selection_minus(v, Lookup(other.selections, Key(v)))
                ELSE Some(v)]))

\* selection_intersection that takes the copy of self only when neither side
\* has a sub-selection.
selection_intersection_of_leaves(self, other) ==
    IF selection_set(self) # None /\ selection_set(other) # None
    THEN LET self_sub_selection == selection_set(self)[1]
             common == intersection(self_sub_selection, selection_set(other)[1])
         IN  IF common.selections = <<>>
             THEN None
             ELSE Some(with_updated_selections(self, self_sub_selection.type_position,
                                               common.selections))
    ELSE IF selection_set(self) = None /\ selection_set(other) = None THEN Some(self)
    ELSE None

\* selection_intersection without the test for an empty common part.
selection_intersection_unchecked(self, other) ==
    IF selection_set(self) # None /\ selection_set(other) # None
    THEN LET self_sub_selection == selection_set(self)[1]
             common == intersection(self_sub_selection, selection_set(other)[1])
         IN  IF common.selections = <<>>
             THEN Some(self)
             ELSE Some(with_updated_selections(self, self_sub_selection.type_position,
                                               common.selections))
    ELSE Some(self)

selection_intersection(self, other) ==
    IF selection_set(self) # None /\ selection_set(other) # None
    THEN LET self_sub_selection == selection_set(self)[1]
             common == intersection(self_sub_selection, selection_set(other)[1])
         IN  IF common.selections = <<>>
             THEN None
             ELSE Some(with_updated_selections(self, self_sub_selection.type_position,
                                               common.selections))
    ELSE Some(self)

\* intersection returning `self` where it should return the empty `other`.
intersection_self_on_empty(self, other) ==
    IF self.selections = <<>> THEN self
    ELSE IF other.selections = <<>> THEN self
    ELSE from_raw_selections(self.type_position,
        Flatten([i \in DOMAIN self.selections |->
            LET v == self.selections[i]
            IN  IF HasKey(other.selections, Key(v))
                THEN selection_intersection(v, Lookup(other.selections, Key(v)))
                ELSE None]))

intersection(self, other) ==
    IF self.selections = <<>> THEN self
    ELSE IF other.selections = <<>> THEN other
    ELSE from_raw_selections(self.type_position,
        Flatten([i \in DOMAIN self.selections |->
            LET v == self.selections[i]
            IN  IF HasKey(other.selections, Key(v))
                THEN selection_intersection(v, Lookup(other.selections, Key(v)))
                ELSE None]))

(***************************************************************************)
(* Containment: NotContained, StrictlyContained (self strictly contains    *)
(* other) or Equal.                                                        *)
(***************************************************************************)
\* SelectionKey::is_typename_field: `__typename` without directives.
is_typename_field(key) ==
    key.kind = "Field" /\ key.name = "__typename" /\ key.directives = NoDirectives

has_top_level_typename_field(selections) ==
    \E i \in DOMAIN selections : is_typename_field(Key(selections[i]))

RECURSIVE containment(_, _, _)

field_containment(self, other, ignore_missing_typename) ==
    IF \/ self.field_name # other.field_name
       \/ self.name # other.name
       \/ self.arguments # other.arguments
       \/ self.directives # other.directives
    THEN "NotContained"
    ELSE IF self.selection_set = None /\ other.selection_set = None THEN "Equal"
    ELSE IF self.selection_set # None /\ other.selection_set # None
         THEN containment(self.selection_set[1], other.selection_set[1],
                          ignore_missing_typename)
    ELSE "NotContained"

selection_containment(self, other, ignore_missing_typename) ==
    IF self.kind = "Field" /\ other.kind = "Field"
    THEN field_containment(self, other, ignore_missing_typename)
    ELSE IF self.kind # "Field" /\ other.kind # "Field"
         THEN containment(self.selection_set[1], other.selection_set[1],
                          ignore_missing_typename)
    ELSE "NotContained"

\* The fold over the selections of `other`: <<is_equal, contained>>.
RECURSIVE ContainmentFold(_, _, _, _)
ContainmentFold(self, others, ignore_missing_typename, is_equal) ==
    IF others = <<>> THEN <<is_equal, TRUE>>
    ELSE LET o == Head(others)
         IN  IF is_typename_field(Key(o)) /\ ignore_missing_typename
             THEN ContainmentFold(self, Tail(others), ignore_missing_typename, is_equal)
             ELSE IF ~HasKey(self.selections, Key(o)) THEN <<FALSE, FALSE>>
             ELSE LET r == selection_containment(Lookup(self.selections, Key(o)), o,
                                                 ignore_missing_typename)
                  IN  IF r = "NotContained" THEN <<FALSE, FALSE>>
                      ELSE ContainmentFold(self, Tail(others), ignore_missing_typename,
                                           is_equal /\ r = "Equal")

containment(self, other, ignore_missing_typename) ==
    IF /\ Len(other.selections) > Len(self.selections)
       /\ \/ ~ignore_missing_typename
          \/ Len(other.selections) > Len(self.selections) + 1
          \/ has_top_level_typename_field(self.selections)
          \/ ~has_top_level_typename_field(other.selections)
    THEN "NotContained"
    ELSE LET fold == ContainmentFold(self, other.selections, ignore_missing_typename, TRUE)
             did_ignore_typename ==
                 /\ ignore_missing_typename
                 /\ has_top_level_typename_field(other.selections)
                 /\ ~has_top_level_typename_field(self.selections)
             expected_len ==
                 IF did_ignore_typename THEN Len(self.selections) + 1
                 ELSE Len(self.selections)
         IN  IF ~fold[2] THEN "NotContained"
             ELSE IF fold[1] /\ Len(other.selections) = expected_len THEN "Equal"
             ELSE "StrictlyContained"

(***************************************************************************)
(* The schema the operations are written against:                          *)
(*   type Query { i: I  j: I }                                             *)
(*   interface I { a: A }                                                  *)
(*   type T1 implements I { a: A }     type T2 implements I { a: A }       *)
(*   union U = A | B                   union V = T1 | T2                   *)
(*   type A { x: Int  y: Int }         type B { m: Int  n: String }        *)
(* Every composite type also has the meta field __typename.                *)
(***************************************************************************)
CompositeTypes == {"Query", "I", "T1", "T2", "U", "V", "A", "B"}

is_object_type(ty) == ty \in {"Query", "T1", "T2", "A", "B"}

is_union_type(ty) == ty \in {"U", "V"}

is_abstract_type(ty) == ty \in {"I", "U", "V"}

possible_runtime_types(ty) ==
    IF ty \in {"I", "V"} THEN {"T1", "T2"}
    ELSE IF ty = "U" THEN {"A", "B"}
    ELSE {ty}

runtime_types_intersect(t1, t2) ==
    possible_runtime_types(t1) \cap possible_runtime_types(t2) # {}

\* Field::output_base_type: the named type a field returns.
output_base_type(field_name) ==
    IF field_name \in {"i", "j"} THEN "I"
    ELSE IF field_name = "a" THEN "A"
    ELSE IF field_name \in {"n", "__typename"} THEN "String"
    ELSE "Int"

\* Field::types_can_be_merged on two fields: composite types always merge
\* here (no list or non-null wrappers), leaf types when they are the same.
types_can_be_merged(f1, f2) ==
    LET t1 == output_base_type(f1.field_name)
        t2 == output_base_type(f2.field_name)
    IN  IF t1 \in CompositeTypes /\ t2 \in CompositeTypes THEN TRUE
        ELSE t1 = t2

(***************************************************************************)
(* Named fragments.  A catalog (NamedFragments) is a sequence of fragments *)
(* in insertion order, dependencies first.                                 *)
(***************************************************************************)
Fragment(name, type_condition_position, selections) ==
    [name |-> name, type_condition_position |-> type_condition_position,
     directives |-> NoDirectives, variables |-> {},
     selection_set |-> SelSet(type_condition_position, selections)]

\* Fragment::used_variables
used_variables(fragment) == fragment.variables

\* FragmentSpreadSelection::from_fragment
from_fragment(fragment, directives) ==
    SpreadSel(fragment.name, fragment.type_condition_position, directives,
              fragment.selection_set)

\* InlineFragmentSelection::from_selection_set: the condition is the type of
\* the selection set.
from_selection_set(parent_type, ss, directives) ==
    InlineSel(ss.type_position, directives, ss)

\* SelectionSet::from_selection
from_selection(type_position, sel) == SelSet(type_position, <<sel>>)

Names(fragments) == {fragments[i].name : i \in DOMAIN fragments}

(***************************************************************************)
(* Tree helpers of the selection set.                                      *)
(***************************************************************************)
RECURSIVE contains_fragment_spread(_)
contains_fragment_spread(ss) ==
    \E i \in DOMAIN ss.selections :
        LET sel == ss.selections[i]
        IN  \/ sel.kind = "FragmentSpread"
            \/ /\ selection_set(sel) # None
               /\ contains_fragment_spread(selection_set(sel)[1])

\* lazy_map: the mapper's results (sequences of selections) merged into a
\* selection set of the same parent type.
lazy_map(ss, mapped) ==
    from_raw_selections(ss.type_position, Flatten(mapped))

\* expand_all_fragments: every spread becomes an inline fragment on the
\* fragment's condition holding the expanded body.
RECURSIVE expand_all_fragments(_)
expand_all_fragments(ss) ==
    from_raw_selections(ss.type_position,
        [i \in DOMAIN ss.selections |->
            LET sel == ss.selections[i]
            IN  IF sel.kind = "FragmentSpread"
                THEN InlineSel(sel.type_condition, sel.directives,
                               expand_all_fragments(sel.selection_set[1]))
                ELSE IF sel.selection_set = None THEN sel
                ELSE [sel EXCEPT !.selection_set =
                          Some(expand_all_fragments(sel.selection_set[1]))]])

\* flatten_unnecessary_fragments(parent_type, kept fragments, schema): dead
\* branches go, inline fragments whose condition is trivially satisfied at
\* parent_type are replaced by their children, kept spreads stay.
RECURSIVE flatten_unnecessary_fragments(_, _)
FlattenSelection(sel, parent_type) ==
    IF sel.kind = "Field"
    THEN IF sel.selection_set = None THEN <<sel>>
         ELSE <<[sel EXCEPT !.selection_set =
                     Some(flatten_unnecessary_fragments(
                              sel.selection_set[1], output_base_type(sel.field_name)))]>>
    ELSE IF sel.type_condition # parent_type
            /\ ~runtime_types_intersect(sel.type_condition, parent_type)
    THEN <<>>
    ELSE IF sel.kind = "FragmentSpread" THEN <<sel>>
    ELSE IF /\ sel.directives = NoDirectives
            /\ \/ sel.type_condition = parent_type
               \/ (is_object_type(parent_type)
                   /\ parent_type \in possible_runtime_types(sel.type_condition))
    THEN flatten_unnecessary_fragments(sel.selection_set[1], parent_type).selections
    ELSE LET sub == flatten_unnecessary_fragments(sel.selection_set[1], sel.type_condition)
         IN  IF sub.selections = <<>> /\ sel.directives = NoDirectives THEN <<>>
             ELSE <<[sel EXCEPT !.selection_set = Some(sub)]>>

flatten_unnecessary_fragments(ss, parent_type) ==
    from_raw_selections(parent_type,
        Flatten([i \in DOMAIN ss.selections |->
                    FlattenSelection(ss.selections[i], parent_type)]))

\* used_fragments / collect_used_fragment_names: the number of spreads of
\* `name` in the tree; the bodies of spreads are not entered.
RECURSIVE UsageCount(_, _)
UsageCount(ss, name) ==
    LET n == Len(ss.selections)
        one(i) ==
            LET sel == ss.selections[i]
            IN  IF sel.kind = "FragmentSpread"
                THEN (IF sel.name = name THEN 1 ELSE 0)
                ELSE IF sel.selection_set = None THEN 0
                ELSE UsageCount(sel.selection_set[1], name)
        sum[i \in 0..n] == IF i = 0 THEN 0 ELSE sum[i - 1] + one(i)
    IN  sum[n]

used_fragments(ss, names) == [name \in names |-> UsageCount(ss, name)]

(***************************************************************************)
(* Field validation.  A FieldsConflictValidator is the set of its          *)
(* (field, sub-validator) entries; by_response_name[n] is the entries      *)
(* whose field has response name n.  A Field is identified by its parent   *)
(* type, name, alias, arguments and directives.                            *)
(***************************************************************************)
FieldOf(sel, parent_type) ==
    [parent_type_position |-> parent_type, field_name |-> sel.field_name,
     name |-> sel.name, arguments |-> sel.arguments, directives |-> sel.directives]

\* SelectionSet::field_selections: the fields of the set, those under inline
\* fragments included.
RECURSIVE field_selections(_)
field_selections(ss) ==
    UNION {LET sel == ss.selections[i]
           IN  IF sel.kind = "Field"
               THEN {[field |-> FieldOf(sel, ss.type_position),
                      selection_set |-> sel.selection_set]}
               ELSE IF sel.kind = "InlineFragment"
               THEN field_selections(sel.selection_set[1])
               ELSE {}
           : i \in DOMAIN ss.selections}

RECURSIVE for_level(_)
for_level(level) ==
    LET at_level == UNION {field_selections(ss) : ss \in level}
        selection_sets(field) ==
            {fs.selection_set[1] :
                fs \in {g \in at_level : g.field = field /\ g.selection_set # None}}
    IN  {[field |-> field,
          validator |-> IF selection_sets(field) = {} THEN None
                        ELSE Some(for_level(selection_sets(field)))]
         : field \in {fs.field : fs \in at_level}}

from_selection_set_validator(ss) == for_level({ss})

\* FieldsConflictValidator::for_field
validator_for_field(v, field) ==
    {e.validator[1] : e \in {d \in v : d.field.name = field.name /\ d.validator # None}}

RECURSIVE has_same_response_shape(_, _)
has_same_response_shape(self, other) ==
    \A s \in self, o \in other :
        s.field.name = o.field.name =>
            /\ types_can_be_merged(s.field, o.field)
            /\ (s.validator # None /\ o.validator # None)
                  => has_same_response_shape(s.validator[1], o.validator[1])

RECURSIVE do_merge_with(_, _)
do_merge_with(self, other) ==
    \A s \in self, o \in other :
        s.field.name = o.field.name =>
            /\ types_can_be_merged(s.field, o.field)
            /\ LET p1 == s.field.parent_type_position
                   p2 == o.field.parent_type_position
               IN  IF p1 = p2 \/ ~is_object_type(p1) \/ ~is_object_type(p2)
                   THEN /\ s.field.field_name = o.field.field_name
                        /\ s.field.arguments = o.field.arguments
                        /\ (s.validator # None /\ o.validator # None)
                              => do_merge_with(s.validator[1], o.validator[1])
                   ELSE (s.validator # None /\ o.validator # None)
                            => has_same_response_shape(s.validator[1], o.validator[1])

do_merge_with_all(self, validators) ==
    \A v \in validators : do_merge_with(v, self)

\* FieldsConflictMultiBranchValidator
new_multi_branch(validators) ==
    [validators |-> validators, used_spread_trimmed_part_at_level |-> <<>>]

from_initial_validator(validator) == new_multi_branch({validator})

multi_branch_for_field(mb, field) ==
    new_multi_branch(UNION {validator_for_field(v, field) : v \in mb.validators})

\* A variant that never compares with the validators recorded at the level.
check_can_reuse_fragment_and_track_it_against_branches(mb, fragment_restriction) ==
    IF fragment_restriction.validator = None THEN <<TRUE, mb>>
    ELSE LET validator == fragment_restriction.validator[1]
         IN  IF ~do_merge_with_all(validator, mb.validators) THEN <<FALSE, mb>>
             ELSE <<TRUE, [mb EXCEPT !.used_spread_trimmed_part_at_level =
                                         Append(@, validator)]>>

\* check_can_reuse_fragment_and_track_it: <<accepted, the validator after>>.
check_can_reuse_fragment_and_track_it(mb, fragment_restriction) ==
    IF fragment_restriction.validator = None THEN <<TRUE, mb>>
    ELSE LET validator == fragment_restriction.validator[1]
         IN  IF ~do_merge_with_all(validator, mb.validators) THEN <<FALSE, mb>>
             ELSE IF ~do_merge_with_all(validator,
                                        Range(mb.used_spread_trimmed_part_at_level))
             THEN <<FALSE, mb>>
             ELSE <<TRUE, [mb EXCEPT !.used_spread_trimmed_part_at_level =
                                         Append(@, validator)]>>

(***************************************************************************)
(* Matching fragments with a selection set.                                *)
(***************************************************************************)
can_apply_directly_at_type(fragment, ty) ==
    IF fragment.type_condition_position = ty THEN TRUE
    ELSE IF ~is_abstract_type(fragment.type_condition_position) THEN FALSE
    ELSE IF ~is_union_type(fragment.type_condition_position) /\ ~is_object_type(ty)
    THEN FALSE
    ELSE possible_runtime_types(ty)
             \subseteq possible_runtime_types(fragment.type_condition_position)

RECURSIVE get_all_may_apply_directly_at_type(_, _)
get_all_may_apply_directly_at_type(fragments, ty) ==
    IF fragments = <<>> THEN <<>>
    ELSE (IF can_apply_directly_at_type(Head(fragments), ty)
          THEN <<Head(fragments)>> ELSE <<>>)
         \o get_all_may_apply_directly_at_type(Tail(fragments), ty)

\* expanded_selection_set_at_type with no validator for an object condition
\* and the validator of the trimmed part for the other conditions.
expanded_selection_set_at_type_trimming_abstract(fragment, ty) ==
    LET expanded_selection_set == expand_all_fragments(fragment.selection_set)
        flattened == flatten_unnecessary_fragments(expanded_selection_set, ty)
        trimmed == minus(expanded_selection_set, flattened)
    IN  IF is_object_type(fragment.type_condition_position)
        THEN [selections |-> flattened, validator |-> None]
        ELSE [selections |-> flattened,
              validator |-> IF trimmed.selections # <<>>
                            THEN Some(from_selection_set_validator(trimmed))
                            ELSE None]

\* Fragment::expanded_selection_set_at_type: a FragmentRestrictionAtType.
expanded_selection_set_at_type(fragment, ty) ==
    LET expanded_selection_set == expand_all_fragments(fragment.selection_set)
        flattened == flatten_unnecessary_fragments(expanded_selection_set, ty)
        trimmed == minus(expanded_selection_set, flattened)
    IN  IF ~is_object_type(fragment.type_condition_position)
        THEN [selections |-> flattened,
              validator |-> Some(from_selection_set_validator(expanded_selection_set))]
        ELSE [selections |-> flattened,
              validator |-> IF trimmed.selections # <<>>
                            THEN Some(from_selection_set_validator(trimmed))
                            ELSE None]

is_useless(restriction) ==
    \/ restriction.selections.selections = <<>>
    \/ /\ Len(restriction.selections.selections) = 1
       /\ is_typename_field(Key(restriction.selections.selections[1]))

\* Fragment::includes
includes(fragment, other_fragment_name) ==
    /\ fragment.name # other_fragment_name
    /\ \E i \in DOMAIN fragment.selection_set.selections :
          LET sel == fragment.selection_set.selections[i]
          IN  sel.kind = "FragmentSpread" /\ sel.name = other_fragment_name

\* FullMatchingFragmentCondition::check; `condition` is
\* [for_field, type_condition_position, directives].
ForFieldSelection == [for_field |-> TRUE, type_condition_position |-> "", directives |-> NoDirectives]

ForInlineFragmentSelection(type_condition_position, directives) ==
    [for_field |-> FALSE, type_condition_position |-> type_condition_position,
     directives |-> directives]

\* A variant that does not compare the type conditions.
full_match_check_on_directives_only(condition, fragment) ==
    IF condition.for_field THEN fragment.directives = NoDirectives
    ELSE Range(fragment.directives) \subseteq Range(condition.directives)

full_match_check(condition, fragment) ==
    IF condition.for_field THEN fragment.directives = NoDirectives
    ELSE \/ fragment.directives = NoDirectives
         \/ /\ fragment.type_condition_position = condition.type_condition_position
            /\ Range(fragment.directives) \subseteq Range(condition.directives)

(***************************************************************************)
(* try_apply_fragments.  The result is                                     *)
(*   [fragment, selection_set, validator]:                                 *)
(* `fragment` is Some(F) when F covers the whole selection set, else the   *)
(* (partially) optimized selection set is in `selection_set`; `validator`  *)
(* is the multi-branch validator after the call.                           *)
(***************************************************************************)
ReuseContext(fragments, operation_variables) ==
    [fragments |-> fragments, operation_variables |-> operation_variables]

for_fragments(fragments) == ReuseContext(fragments, None)

for_operation(fragments, variables) == ReuseContext(fragments, Some(variables))

\* The first loop of try_apply_fragments without the test of the variables
\* the candidate uses.
RECURSIVE CollectApplicable_any_variables(_, _, _, _, _, _, _)
CollectApplicable_any_variables(self, parent_type, context, validator, full_match_condition, candidates, applicable_fragments) ==
    IF candidates = <<>>
    THEN [full |-> None, applicable |-> applicable_fragments, validator |-> validator]
    ELSE
      LET candidate == Head(candidates)
          skip == CollectApplicable_any_variables(self, parent_type, context, validator,
                      full_match_condition, Tail(candidates), applicable_fragments)
          Decide(at_type, res, checked) ==
              IF is_useless(at_type) THEN skip
              ELSE IF res = "Equal" /\ full_match_check(full_match_condition, candidate)
              THEN IF ~checked[1] THEN skip
                   ELSE [full |-> Some(candidate), applicable |-> applicable_fragments,
                         validator |-> checked[2]]
              ELSE IF /\ res \in {"Equal", "StrictlyContained"}
                      /\ candidate.directives = NoDirectives
              THEN CollectApplicable_any_variables(self, parent_type, context, validator,
                       full_match_condition, Tail(candidates),
                       Append(applicable_fragments,
                              [fragment |-> candidate, at_type |-> at_type]))
              ELSE skip
          Check(at_type) ==
              Decide(at_type, containment(self, at_type.selections, TRUE),
                     check_can_reuse_fragment_and_track_it(validator, at_type))
      IN  Check(expanded_selection_set_at_type(candidate, parent_type))

\* The first loop of try_apply_fragments in which a full match the validator
\* rejects is kept as an applicable fragment.
RECURSIVE CollectApplicable_keeping_rejected(_, _, _, _, _, _, _)
CollectApplicable_keeping_rejected(self, parent_type, context, validator, full_match_condition, candidates, applicable_fragments) ==
    IF candidates = <<>>
    THEN [full |-> None, applicable |-> applicable_fragments, validator |-> validator]
    ELSE
      LET candidate == Head(candidates)
          skip == CollectApplicable_keeping_rejected(self, parent_type, context, validator,
                      full_match_condition, Tail(candidates), applicable_fragments)
          Decide(at_type, res, checked) ==
              IF is_useless(at_type) THEN skip
              ELSE IF /\ context.operation_variables # None
                      /\ used_variables(candidate) \ context.operation_variables[1] # {}
              THEN skip
              ELSE IF /\ res = "Equal" /\ full_match_check(full_match_condition, candidate)
                      /\ checked[1]
              THEN [full |-> Some(candidate), applicable |-> applicable_fragments,
                    validator |-> checked[2]]
              ELSE IF /\ res \in {"Equal", "StrictlyContained"}
                      /\ candidate.directives = NoDirectives
              THEN CollectApplicable_keeping_rejected(self, parent_type, context, validator,
                       full_match_condition, Tail(candidates),
                       Append(applicable_fragments,
                              [fragment |-> candidate, at_type |-> at_type]))
              ELSE skip
          Check(at_type) ==
              Decide(at_type, containment(self, at_type.selections, TRUE),
                     check_can_reuse_fragment_and_track_it(validator, at_type))
      IN  Check(expanded_selection_set_at_type(candidate, parent_type))

\* The first loop of try_apply_fragments over the candidates:
\* [full, applicable, validator].
RECURSIVE CollectApplicable(_, _, _, _, _, _, _)
CollectApplicable(self, parent_type, context, validator, full_match_condition, candidates, applicable_fragments) ==
    IF candidates = <<>>
    THEN [full |-> None, applicable |-> applicable_fragments, validator |-> validator]
    ELSE
      LET candidate == Head(candidates)
          skip == CollectApplicable(self, parent_type, context, validator,
                      full_match_condition, Tail(candidates), applicable_fragments)
          Decide(at_type, res, checked) ==
              IF is_useless(at_type) THEN skip
              ELSE IF /\ context.operation_variables # None
                      /\ used_variables(candidate) \ context.operation_variables[1] # {}
              THEN skip
              ELSE IF res = "Equal" /\ full_match_check(full_match_condition, candidate)
              THEN IF ~checked[1] THEN skip
                   ELSE [full |-> Some(candidate), applicable |-> applicable_fragments,
                         validator |-> checked[2]]
              ELSE IF /\ res \in {"Equal", "StrictlyContained"}
                      /\ candidate.directives = NoDirectives
              THEN CollectApplicable(self, parent_type, context, validator,
                       full_match_condition, Tail(candidates),
                       Append(applicable_fragments,
                              [fragment |-> candidate, at_type |-> at_type]))
              ELSE skip
          Check(at_type) ==
              Decide(at_type, containment(self, at_type.selections, TRUE),
                     check_can_reuse_fragment_and_track_it(validator, at_type))
      IN  Check(expanded_selection_set_at_type(candidate, parent_type))

RECURSIVE FilterApplicable(_, _)
FilterApplicable(applicable_fragments, included_fragments) ==
    IF applicable_fragments = <<>> THEN <<>>
    ELSE (IF Head(applicable_fragments).fragment.name \in included_fragments
          THEN <<>> ELSE <<Head(applicable_fragments)>>)
         \o FilterApplicable(Tail(applicable_fragments), included_fragments)

reduce_applicable_fragments(applicable_fragments) ==
    LET included_fragments ==
            {applicable_fragments[i].fragment.name : i \in
                {k \in DOMAIN applicable_fragments :
                    \E j \in DOMAIN applicable_fragments :
                        includes(applicable_fragments[j].fragment,
                                 applicable_fragments[k].fragment.name)}}
    IN  FilterApplicable(applicable_fragments, included_fragments)

\* The second loop of try_apply_fragments in which a fragment the validator
\* rejects still counts as covering its selections.
RECURSIVE BuildOptimized_covering_rejected(_, _, _, _, _)
BuildOptimized_covering_rejected(self, applicable_fragments, validator, not_covered_so_far, optimized) ==
    IF applicable_fragments = <<>>
    THEN [not_covered_so_far |-> not_covered_so_far, optimized |-> optimized,
          validator |-> validator]
    ELSE
      LET fragment == Head(applicable_fragments).fragment
          at_type == Head(applicable_fragments).at_type
          Continue(checked, not_covered) ==
              IF ~checked[1]
              THEN BuildOptimized_covering_rejected(self, Tail(applicable_fragments),
                       validator, not_covered, optimized)
              ELSE BuildOptimized_covering_rejected(self, Tail(applicable_fragments),
                       checked[2], not_covered,
                       add_local_selection(optimized,
                                           from_fragment(fragment, NoDirectives)))
      IN  Continue(check_can_reuse_fragment_and_track_it(validator, at_type),
                   intersection(not_covered_so_far, minus(self, at_type.selections)))

\* The second loop of try_apply_fragments:
\* [not_covered_so_far, optimized, validator].
RECURSIVE BuildOptimized(_, _, _, _, _)
BuildOptimized(self, applicable_fragments, validator, not_covered_so_far, optimized) ==
    IF applicable_fragments = <<>>
    THEN [not_covered_so_far |-> not_covered_so_far, optimized |-> optimized,
          validator |-> validator]
    ELSE
      LET fragment == Head(applicable_fragments).fragment
          at_type == Head(applicable_fragments).at_type
          Continue(checked) ==
              IF ~checked[1]
              THEN BuildOptimized(self, Tail(applicable_fragments), validator,
                                  not_covered_so_far, optimized)
              ELSE BuildOptimized(self, Tail(applicable_fragments), checked[2],
                       intersection(not_covered_so_far, minus(self, at_type.selections)),
                       add_local_selection(optimized,
                                           from_fragment(fragment, NoDirectives)))
      IN  Continue(check_can_reuse_fragment_and_track_it(validator, at_type))

\* try_apply_fragments that returns the spreads of the applicable fragments
\* without the selections they do not cover.
try_apply_fragments_dropping_rest(self, parent_type, context, validator, full_match_condition) ==
    LET candidates == get_all_may_apply_directly_at_type(context.fragments, parent_type)
        Result(collected, built) ==
            IF collected.full # None
            THEN [fragment |-> collected.full, selection_set |-> self,
                  validator |-> collected.validator]
            ELSE IF collected.applicable = <<>>
            THEN [fragment |-> None, selection_set |-> self,
                  validator |-> collected.validator]
            ELSE [fragment |-> None,
                  selection_set |-> SelSet(self.type_position, built.optimized),
                  validator |-> built.validator]
        Build(collected) ==
            Result(collected,
                   BuildOptimized(self, reduce_applicable_fragments(collected.applicable),
                                  collected.validator, self, <<>>))
    IN  Build(CollectApplicable(self, parent_type, context, validator,
                                full_match_condition, candidates, <<>>))

try_apply_fragments(self, parent_type, context, validator, full_match_condition) ==
    LET candidates == get_all_may_apply_directly_at_type(context.fragments, parent_type)
        Result(collected, built) ==
            IF collected.full # None
            THEN [fragment |-> collected.full, selection_set |-> self,
                  validator |-> collected.validator]
            ELSE IF collected.applicable = <<>>
            THEN [fragment |-> None, selection_set |-> self,
                  validator |-> collected.validator]
            ELSE [fragment |-> None,
                  selection_set |->
                      SelSet(self.type_position,
                             add_local_selections(built.optimized,
                                                  built.not_covered_so_far.selections)),
                  validator |-> built.validator]
        Build(collected) ==
            Result(collected,
                   BuildOptimized(self, reduce_applicable_fragments(collected.applicable),
                                  collected.validator, self, <<>>))
    IN  Build(CollectApplicable(self, parent_type, context, validator,
                                full_match_condition, candidates, <<>>))

(***************************************************************************)
(* reuse_fragments_inner on selections and selection sets.  Each returns   *)
(* <<result, validator after>>: the multi-branch validator is passed by    *)
(* mutable reference, a field gets a fresh one from for_field.             *)
(***************************************************************************)
RECURSIVE selection_reuse_fragments_inner(_, _, _, _)
RECURSIVE set_reuse_fragments_inner(_, _, _)
RECURSIVE MapReuse(_, _, _, _)
RECURSIVE field_reuse_fragments_inner(_, _, _, _)
RECURSIVE inline_reuse_fragments_inner(_, _, _)

FilterDirectives(directives, removed) ==
    FilterSeq(directives, Range(directives) \ Range(removed))

\* What selection_set.reuse_fragments_inner is applied to once
\* try_apply_fragments has returned `opt`.
Optimized(opt, type_position) ==
    IF opt.fragment # None
    THEN from_selection(type_position, from_fragment(opt.fragment[1], NoDirectives))
    ELSE opt.selection_set

field_reuse_fragments_inner(self, parent_type, context, validator) ==
    IF output_base_type(self.field_name) \notin CompositeTypes THEN self
    ELSE IF self.selection_set = None THEN self
    ELSE
      LET base_composite_type == output_base_type(self.field_name)
          field_validator == multi_branch_for_field(validator, FieldOf(self, parent_type))
          Rebuild(opt) ==
              [self EXCEPT !.selection_set =
                  Some(set_reuse_fragments_inner(Optimized(opt, base_composite_type),
                                                 context, opt.validator)[1])]
      IN  Rebuild(try_apply_fragments(self.selection_set[1], base_composite_type, context,
                                      field_validator, ForFieldSelection))

inline_reuse_fragments_inner(self, context, validator) ==
    LET type_condition_position == self.type_condition
        Rebuild(opt, inner) ==
            IF opt.fragment # None
               /\ type_condition_position = opt.fragment[1].type_condition_position
            THEN <<from_fragment(opt.fragment[1],
                       FilterDirectives(self.directives, opt.fragment[1].directives)),
                   opt.validator>>
            ELSE <<[self EXCEPT !.selection_set = Some(inner[1])], inner[2]>>
        Recurse(opt) ==
            Rebuild(opt, set_reuse_fragments_inner(Optimized(opt, type_condition_position),
                                                   context, opt.validator))
    IN  Recurse(try_apply_fragments(self.selection_set[1], type_condition_position,
                    context, validator,
                    ForInlineFragmentSelection(type_condition_position, self.directives)))

selection_reuse_fragments_inner(self, parent_type, context, validator) ==
    IF self.kind = "Field"
    THEN <<field_reuse_fragments_inner(self, parent_type, context, validator), validator>>
    ELSE IF self.kind = "FragmentSpread" THEN <<self, validator>>
    ELSE inline_reuse_fragments_inner(self, context, validator)

\* The mapper of lazy_map applied to the selections in order.
MapReuse(selections, parent_type, context, validator) ==
    IF selections = <<>> THEN <<<<>>, validator>>
    ELSE LET Join(first, rest) == <<(<< <<first[1]>> >>) \o rest[1], rest[2]>>
             Then(first) ==
                 Join(first, MapReuse(Tail(selections), parent_type, context, first[2]))
         IN  Then(selection_reuse_fragments_inner(Head(selections), parent_type,
                                                  context, validator))

set_reuse_fragments_inner(self, context, validator) ==
    LET Rebuild(mapped) == <<lazy_map(self, mapped[1]), mapped[2]>>
    IN  Rebuild(MapReuse(self.selections, self.type_position, context, validator))

\* reuse_fragments without the error for an input that holds fragment spreads.
reuse_fragments_unchecked(self, context) ==
    IF context.fragments = <<>> THEN [ok |-> TRUE, selection_set |-> self]
    ELSE
      LET wrapped == from_selection_set(self.type_position, self, NoDirectives)
          validator == from_initial_validator(from_selection_set_validator(self))
          Unwrap(optimized) ==
              [ok |-> TRUE,
               selection_set |->
                   IF optimized.kind = "FragmentSpread"
                   THEN from_selection(self.type_position, optimized)
                   ELSE optimized.selection_set[1]]
      IN  Unwrap(inline_reuse_fragments_inner(wrapped, context, validator)[1])

\* SelectionSet::reuse_fragments: [ok, selection_set]; ok = FALSE is the
\* internal error for an input that contains fragment spreads.
reuse_fragments(self, context) ==
    IF context.fragments = <<>> THEN [ok |-> TRUE, selection_set |-> self]
    ELSE IF contains_fragment_spread(self) THEN [ok |-> FALSE, selection_set |-> self]
    ELSE
      LET wrapped == from_selection_set(self.type_position, self, NoDirectives)
          validator == from_initial_validator(from_selection_set_validator(self))
          Unwrap(optimized) ==
              [ok |-> TRUE,
               selection_set |->
                   IF optimized.kind = "FragmentSpread"
                   THEN from_selection(self.type_position, optimized)
                   ELSE optimized.selection_set[1]]
      IN  Unwrap(inline_reuse_fragments_inner(wrapped, context, validator)[1])

(***************************************************************************)
(* retain_fragments: expand the spreads of fragments that are not kept.    *)
(* `fragments_to_keep` is used through contains() only: the set of names.  *)
(***************************************************************************)
RECURSIVE set_retain_fragments(_, _)

\* A variant that expands a spread without expanding the spreads of its body.
selection_retain_fragments_shallow(self, parent_type, fragments_to_keep) ==
    IF self.kind = "FragmentSpread"
    THEN IF self.name \in fragments_to_keep THEN <<self>>
         ELSE IF parent_type = self.type_condition /\ self.directives = NoDirectives
              THEN self.selection_set[1].selections
              ELSE <<from_selection_set(parent_type, self.selection_set[1], self.directives)>>
    ELSE IF self.selection_set = None THEN <<self>>
    ELSE <<[self EXCEPT !.selection_set =
                Some(set_retain_fragments(self.selection_set[1], fragments_to_keep))]>>

\* Selection::retain_fragments: a selection or the selections of a set.
selection_retain_fragments(self, parent_type, fragments_to_keep) ==
    IF self.kind = "FragmentSpread"
    THEN IF self.name \in fragments_to_keep THEN <<self>>
         ELSE LET expanded_sub_selections ==
                      set_retain_fragments(self.selection_set[1], fragments_to_keep)
              IN  IF parent_type = self.type_condition /\ self.directives = NoDirectives
                  THEN expanded_sub_selections.selections
                  ELSE <<from_selection_set(parent_type, expanded_sub_selections,
                                            self.directives)>>
    ELSE IF self.selection_set = None THEN <<self>>
    ELSE <<[self EXCEPT !.selection_set =
                Some(set_retain_fragments(self.selection_set[1], fragments_to_keep))]>>

set_retain_fragments(self, fragments_to_keep) ==
    lazy_map(self, [i \in DOMAIN self.selections |->
                       selection_retain_fragments(self.selections[i], self.type_position,
                                                  fragments_to_keep)])

(***************************************************************************)
(* NamedFragments::reduce.                                                 *)
(***************************************************************************)
\* The names a catalog and its bodies can mention.
RECURSIVE SpreadNames(_)
SpreadNames(ss) ==
    UNION {LET sel == ss.selections[i]
           IN  IF sel.kind = "FragmentSpread"
               THEN {sel.name} \cup SpreadNames(sel.selection_set[1])
               ELSE IF sel.selection_set = None THEN {}
               ELSE SpreadNames(sel.selection_set[1])
           : i \in DOMAIN ss.selections}

\* usages with the direct usages of `fragment` added `times` times each.
AddUsages(usages, fragment, times) ==
    [name \in DOMAIN usages |->
        usages[name] + UsageCount(fragment.selection_set, name) * times]

\* A variant that adds the inner usages once, whatever the count of `fragment`.
update_usages_once(usages, fragment, usage_count) == AddUsages(usages, fragment, 1)

\* NamedFragments::update_usages
update_usages(usages, fragment, usage_count) == AddUsages(usages, fragment, usage_count)

\* The loop of reduce_inner over iter_rev(): the fragments from the last
\* inserted to the first.
RECURSIVE CountUsages(_, _, _)
CountUsages(fragments, usages, min_usage_to_optimize) ==
    IF fragments = <<>> THEN usages
    ELSE LET fragment == fragments[Len(fragments)]
             usage_count == usages[fragment.name]
         IN  CountUsages(SubSeq(fragments, 1, Len(fragments) - 1),
                 IF usage_count >= min_usage_to_optimize
                 THEN AddUsages(usages, fragment, 1)
                 ELSE update_usages(usages, fragment, usage_count),
                 min_usage_to_optimize)

RECURSIVE RetainFragments(_, _, _)
RetainFragments(fragments, usages, min_usage_to_optimize) ==
    IF fragments = <<>> THEN <<>>
    ELSE (IF usages[Head(fragments).name] >= min_usage_to_optimize
          THEN <<Head(fragments)>> ELSE <<>>)
         \o RetainFragments(Tail(fragments), usages, min_usage_to_optimize)

\* reduce_inner: [fragments, selection_set].
reduce_inner(fragments, ss, min_usage_to_optimize) ==
    LET names == Names(fragments) \cup SpreadNames(ss)
                 \cup UNION {SpreadNames(fragments[i].selection_set) : i \in DOMAIN fragments}
        usages == used_fragments(ss, names)
        counted == CountUsages(fragments, usages, min_usage_to_optimize)
        retained == RetainFragments(fragments, counted, min_usage_to_optimize)
        fragments_to_keep == Names(retained)
        updated ==
            [i \in DOMAIN retained |->
                [retained[i] EXCEPT !.selection_set =
                    flatten_unnecessary_fragments(
                        set_retain_fragments(retained[i].selection_set, fragments_to_keep),
                        retained[i].selection_set.type_position)]]
        reduced_selection_set == set_retain_fragments(ss, fragments_to_keep)
    IN  IF \A name \in names : usages[name] = 0
        THEN [fragments |-> <<>>, selection_set |-> ss]
        ELSE IF Len(retained) = Len(fragments)
        THEN [fragments |-> fragments, selection_set |-> ss]
        ELSE [fragments |-> updated,
              selection_set |->
                  flatten_unnecessary_fragments(reduced_selection_set,
                                                reduced_selection_set.type_position)]

\* reduce that stops after one reduce_inner.
reduce_single_pass(fragments, last_selection_set, min_usage_to_optimize) ==
    IF Len(fragments) = 0
    THEN [fragments |-> fragments, selection_set |-> last_selection_set, sizes |-> <<>>]
    ELSE LET Once(step) == [fragments |-> step.fragments,
                            selection_set |-> step.selection_set,
                            sizes |-> <<Len(step.fragments)>>]
         IN  Once(reduce_inner(fragments, last_selection_set, min_usage_to_optimize))

\* reduce: reduce_inner until the catalog stops shrinking.  `sizes` is the
\* length of the catalog after each call of reduce_inner, in order.
RECURSIVE reduce(_, _, _)
reduce(fragments, last_selection_set, min_usage_to_optimize) ==
    IF Len(fragments) = 0
    THEN [fragments |-> fragments, selection_set |-> last_selection_set, sizes |-> <<>>]
    ELSE LET Later(step, rest) == [rest EXCEPT !.sizes = <<Len(step.fragments)>> \o @]
             Again(step) ==
                 IF Len(step.fragments) = Len(fragments)
                 THEN [fragments |-> step.fragments, selection_set |-> last_selection_set,
                       sizes |-> <<Len(step.fragments)>>]
                 ELSE Later(step, reduce(step.fragments, step.selection_set,
                                         min_usage_to_optimize))
         IN  Again(reduce_inner(fragments, last_selection_set, min_usage_to_optimize))

(***************************************************************************)
(* Operation::reuse_fragments_inner.  An operation is                      *)
(* [selection_set, named_fragments, variables]; the result is              *)
(* [ok, operation].                                                        *)
(***************************************************************************)
DEFAULT_MIN_USAGES_TO_OPTIMIZE == 2

\* Operation::reuse_fragments_inner that stores the catalog it was given
\* also when no fragment was reused.
operation_reuse_fragments_inner_storing(self, fragments, min_usages_to_optimize) ==
    IF fragments = <<>> THEN [ok |-> TRUE, operation |-> self]
    ELSE
      LET Rebuild(reduced) ==
              [ok |-> TRUE,
               operation |-> [self EXCEPT !.selection_set = reduced.selection_set,
                                          !.named_fragments = reduced.fragments]]
          Reduce(reused) ==
              IF ~reused.ok THEN [ok |-> FALSE, operation |-> self]
              ELSE IF SetEq(self.selection_set, reused.selection_set)
              THEN [ok |-> TRUE,
                    operation |-> [self EXCEPT !.selection_set = reused.selection_set,
                                               !.named_fragments = fragments]]
              ELSE Rebuild(reduce(fragments, reused.selection_set, min_usages_to_optimize))
      IN  Reduce(reuse_fragments(self.selection_set,
                                 for_operation(fragments, self.variables)))

operation_reuse_fragments_inner(self, fragments, min_usages_to_optimize) ==
    IF fragments = <<>> THEN [ok |-> TRUE, operation |-> self]
    ELSE
      LET Rebuild(reduced) ==
              [ok |-> TRUE,
               operation |-> [self EXCEPT !.selection_set = reduced.selection_set,
                                          !.named_fragments = reduced.fragments]]
          Reduce(reused) ==
              IF ~reused.ok THEN [ok |-> FALSE, operation |-> self]
              ELSE IF SetEq(self.selection_set, reused.selection_set)
              THEN [ok |-> TRUE,
                    operation |-> [self EXCEPT !.selection_set = reused.selection_set]]
              ELSE Rebuild(reduce(fragments, reused.selection_set, min_usages_to_optimize))
      IN  Reduce(reuse_fragments(self.selection_set,
                                 for_operation(fragments, self.variables)))

\* Operation::reuse_fragments
operation_reuse_fragments(self, fragments) ==
    operation_reuse_fragments_inner(self, fragments, DEFAULT_MIN_USAGES_TO_OPTIMIZE)

\* Operation::reuse_fragments_for_roundtrip_test
reuse_fragments_for_roundtrip_test(self, fragments) ==
    operation_reuse_fragments_inner(self, fragments, 1)

\* Operation::expand_all_fragments_and_normalize
expand_all_fragments_and_normalize(self) ==
    [self EXCEPT !.named_fragments = <<>>,
                 !.selection_set =
                     flatten_unnecessary_fragments(
                         expand_all_fragments(self.selection_set),
                         self.selection_set.type_position)]

(***************************************************************************)
(* FragmentGenerator.  A generator is [fragments, names]: the catalog it   *)
(* builds and the counter kept per (type condition, number of selections), *)
(* as the set of the pairs <<key, counter>>.                               *)
(***************************************************************************)
\* NamedFragments::insert: a fragment of a new name is appended, a fragment
\* of a stored name takes the place of the stored one.
named_fragments_insert(fragments, fragment) ==
    IF fragment.name \in Names(fragments)
    THEN [i \in DOMAIN fragments |->
             IF fragments[i].name = fragment.name THEN fragment ELSE fragments[i]]
    ELSE Append(fragments, fragment)

\* NamedFragments::get
named_fragments_get(fragments, name) ==
    fragments[CHOOSE i \in DOMAIN fragments : fragments[i].name = name]

FragmentGeneratorDefault == [fragments |-> <<>>, names |-> {}]

\* generate_name: [name, names]; format!("_generated_on{type_condition}{selections}")
\* followed by "_{index}".  `names` holds one <<key, index>> pair for each key
\* of self.names; an inline fragment of the model always has a type condition.
generate_name(names, frag) ==
    LET key == <<frag.type_condition, Len(frag.selection_set[1].selections)>>
        index == IF \E p \in names : p[1] = key
                 THEN (CHOOSE p \in names : p[1] = key)[2] + 1 ELSE 0
    IN  [name |-> "_generated_on" \o key[1] \o ToString(key[2]) \o "_" \o ToString(index),
         names |-> {p \in names : p[1] # key} \cup {<<key, index>>}]

is_worth_using(ss) ==
    IF ss.selections = <<>> THEN FALSE
    ELSE IF Head(ss.selections).kind # "Field" THEN TRUE
    ELSE Len(ss.selections) > 1 \/ Head(ss.selections).selection_set # None

\* directive.name.as_str() is "skip" or "include".
IsSkipOrInclude(directive) == directive \in {"skip(if: $v)", "include(if: $v)"}

\* The last arm of visit_selection_set: `candidate` is the inline fragment
\* with its selection set visited.  [generator, selection].
VisitCandidate(generator, candidate) ==
    IF \E i \in DOMAIN candidate.directives : ~IsSkipOrInclude(candidate.directives[i])
    THEN [generator |-> generator, selection |-> candidate]
    ELSE IF candidate.directives # <<>>
    THEN [generator |-> generator, selection |-> candidate]
    ELSE
      LET casted_type == candidate.type_condition
          found == {i \in DOMAIN generator.fragments :
                       /\ generator.fragments[i].type_condition_position = casted_type
                       /\ SetEq(generator.fragments[i].selection_set,
                                candidate.selection_set[1])}
          Spread(g, name) ==
              [generator |-> g,
               selection |-> from_fragment(named_fragments_get(g.fragments, name),
                                           NoDirectives)]
          Insert(named) ==
              Spread([fragments |->
                         named_fragments_insert(generator.fragments,
                             [Fragment(named.name, casted_type, <<>>)
                                 EXCEPT !.selection_set = candidate.selection_set[1]]),
                      names |-> named.names],
                     named.name)
      IN  IF found # {}
          THEN Spread(generator,
                      generator.fragments[CHOOSE i \in found : \A j \in found : i <= j].name)
          ELSE Insert(generate_name(generator.names, candidate))

\* visit_selection_set: [generator, selection_set].  VisitSelection is one
\* turn of its loop: `state` is the generator and what new_selection_set
\* holds before the turn.
RECURSIVE visit_selection_set(_, _)
RECURSIVE VisitSelection(_, _)
VisitSelection(state, selection) ==
    LET Keep(g, sel) ==
            [generator |-> g, selections |-> add_local_selection(state.selections, sel)]
        Field(sub) ==
            Keep(sub.generator,
                 [selection EXCEPT !.selection_set = Some(sub.selection_set)])
        Hoist(visited) == Keep(visited.generator, visited.selection)
        Candidate(sub) ==
            Hoist(VisitCandidate(sub.generator,
                      [selection EXCEPT !.selection_set = Some(sub.selection_set)]))
    IN  IF selection.kind = "Field"
        THEN IF selection.selection_set = None THEN Keep(state.generator, selection)
             ELSE Field(visit_selection_set(state.generator, selection.selection_set[1]))
        ELSE IF selection.kind = "FragmentSpread" THEN Keep(state.generator, selection)
        ELSE IF ~is_worth_using(selection.selection_set[1])
        THEN Keep(state.generator, selection)
        ELSE Candidate(visit_selection_set(state.generator, selection.selection_set[1]))

visit_selection_set(generator, ss) ==
    LET \* turn[i]: the state after the first i selections, each turn
        \* starting from the finished state of the turn before.
        turn[i \in 0..Len(ss.selections)] ==
            IF i = 0 THEN [generator |-> generator, selections |-> <<>>]
            ELSE CHOOSE after \in {VisitSelection(state, ss.selections[i]) :
                                      state \in {turn[i - 1]}} : TRUE
        Rebuild(visited) ==
            [generator |-> visited.generator,
             selection_set |-> SelSet(ss.type_position, visited.selections)]
    IN  Rebuild(turn[Len(ss.selections)])

\* Operation::generate_fragments
generate_fragments(self) ==
    LET Store(visited) ==
            [self EXCEPT !.selection_set = visited.selection_set,
                         !.named_fragments = visited.generator.fragments]
    IN  Store(visit_selection_set(FragmentGeneratorDefault, self.selection_set))

(***************************************************************************)
(* __typename for the abstract types of the catalog.                       *)
(***************************************************************************)
\* SelectionSet::add_typename_field_for_abstract_types: __typename is put in
\* front of `ss` when parent_type_if_abstract is given, and in front of
\* every selection set below it whose type is abstract.
RECURSIVE add_typename_field_for_abstract_types(_, _)
add_typename_field_for_abstract_types(ss, parent_type_if_abstract) ==
    LET Below(inner) ==
            add_typename_field_for_abstract_types(inner,
                IF is_abstract_type(inner.type_position)
                THEN Some(inner.type_position) ELSE None)
        Child(sel) ==
            IF sel.selection_set = None THEN sel
            ELSE [sel EXCEPT !.selection_set = Some(Below(sel.selection_set[1]))]
        typename ==
            IF parent_type_if_abstract = None THEN <<>>
            ELSE <<FieldSel("__typename", "__typename", 0, NoDirectives, None)>>
    IN  from_raw_selections(ss.type_position,
            typename \o [i \in DOMAIN ss.selections |-> Child(ss.selections[i])])

\* NamedFragments::map_to_expanded_selection_sets: [ok, fragments]; ok = FALSE
\* is the error of reuse_fragments, returned by `?`.  `mapper` is the closure
\* of its one caller, add_typename_field_for_abstract_types_in_named_fragments.
map_to_expanded_selection_sets(self) ==
    LET mapper(ss) == add_typename_field_for_abstract_types(ss, None)
        Updated(fragment, result, reused) ==
            IF ~reused.ok THEN [ok |-> FALSE, fragments |-> result]
            ELSE [ok |-> TRUE,
                  fragments |->
                      named_fragments_insert(result,
                          [fragment EXCEPT !.selection_set = reused.selection_set])]
        Mapped(fragment, result, mapped_selection_set) ==
            Updated(fragment, result,
                    reuse_fragments(mapped_selection_set, for_fragments(result)))
        Expanded(fragment, result, expanded_selection_set) ==
            Mapped(fragment, result, mapper(expanded_selection_set))
        Visit(fragment, result) ==
            Expanded(fragment, result,
                flatten_unnecessary_fragments(
                    expand_all_fragments(fragment.selection_set),
                    fragment.type_condition_position))
        after[i \in 0..Len(self)] ==
            IF i = 0 THEN [ok |-> TRUE, fragments |-> <<>>]
            ELSE CHOOSE next \in {IF done.ok THEN Visit(self[i], done.fragments)
                                  ELSE done : done \in {after[i - 1]}} : TRUE
    IN  after[Len(self)]

\* NamedFragments::add_typename_field_for_abstract_types_in_named_fragments:
\* [ok, fragments]; ok = FALSE is an Err.
add_typename_field_for_abstract_types_in_named_fragments(self) ==
    LET Checked(updated) ==
            IF ~updated.ok THEN updated
            ELSE IF Len(updated.fragments) # Len(self)
            THEN [ok |-> FALSE, fragments |-> updated.fragments]
            ELSE updated
    IN  IF self = <<>> THEN [ok |-> TRUE, fragments |-> self]
        ELSE Checked(map_to_expanded_selection_sets(self))

(***************************************************************************)
(* SpecMap: the SelectionMap API called in any order on two maps.          *)
(***************************************************************************)
LeafSet(ty, names) ==
    SelSet(ty, [i \in 1..Len(names) |-> FieldSel(names[i], names[i], 0, NoDirectives, None)])

MapValues ==
    { FieldSel("a", "a", 0, NoDirectives, None),
      FieldSel("a", "a", 1, NoDirectives, None),
      FieldSel("c", "c", 0, NoDirectives, Some(LeafSet("C", <<"x">>))) }

MapKeys == {Key(v) : v \in MapValues}

MapSeqs == UNION {[1..n -> MapValues] : n \in 0..MaxSelections}

NoSel == FieldSel("", "", 0, NoDirectives, None)

NoKey == Key(NoSel)

Frozen == [type_position |-> "", selections |-> <<>>]

NoCall ==
    [op |-> "none", m |-> 0, sel |-> NoSel, key |-> NoKey, found |-> FALSE,
     prev_len |-> 0, old |-> {}, index |-> 0, ok |-> TRUE, produced |-> FALSE]

NoOut == [op |-> "none", set |-> Frozen, rel |-> "", fed |-> "none"]

AlgebraFrozen == lhs = Frozen /\ rhs = Frozen /\ out = NoOut

AlgebraUnchanged == UNCHANGED <<lhs, rhs, out>>

NoOperation ==
    [name |-> None, root_kind |-> "", directives |-> NoDirectives, variables |-> {},
     selection_set |-> Frozen, named_fragments |-> <<>>]

NoOutcome == [ok |-> TRUE, min_usages |-> 0, previous |-> NoOperation]

EngineFrozen ==
    /\ operation = NoOperation
    /\ given = <<>>
    /\ before = Frozen
    /\ outcome = NoOutcome
    /\ calls = 0

EngineUnchanged == UNCHANGED <<operation, given, before, outcome, calls>>

NoSite == [self |-> Frozen, fragments |-> <<>>, tracked |-> <<>>]

NoApplied == [op |-> "none"]

MatcherFrozen == site = NoSite /\ applied = NoApplied

MatcherUnchanged == UNCHANGED <<site, applied>>

InitMap ==
    /\ maps = [m \in 1..2 |-> new]
    /\ last = NoCall
    /\ panicked = FALSE
    /\ AlgebraFrozen
    /\ EngineFrozen
    /\ MatcherFrozen

\* SelectionMap::insert
MapInsert(m, value) ==
    /\ len(maps[m]) < MaxSelections
    /\ maps' = [maps EXCEPT ![m] = insert(maps[m], value)]
    /\ last' = [NoCall EXCEPT !.op = "insert", !.m = m, !.sel = value,
                              !.key = Key(value),
                              !.found = contains_key(maps[m], Key(value)),
                              !.prev_len = len(maps[m]),
                              !.old = get(maps[m], Key(value))]
    /\ UNCHANGED panicked
    /\ AlgebraUnchanged
    /\ EngineUnchanged
    /\ MatcherUnchanged

\* SelectionMap::remove
MapRemove(m, key) ==
    /\ IF TableFind(maps[m], key) = {}
       THEN /\ maps' = maps
            /\ last' = [NoCall EXCEPT !.op = "remove", !.m = m, !.key = key,
                                      !.prev_len = len(maps[m])]
            /\ UNCHANGED panicked
       ELSE \E index \in TableFind(maps[m], key) :
            /\ maps' = [maps EXCEPT ![m] = RemoveIndex(maps[m], index)]
            /\ last' = [NoCall EXCEPT !.op = "remove", !.m = m, !.key = key,
                                      !.found = TRUE, !.index = index,
                                      !.sel = maps[m].selections[index],
                                      !.prev_len = len(maps[m])]
            /\ panicked' = (panicked \/ ~RebuildAssertHolds(
                               [maps[m] EXCEPT !.selections = RemoveAt(@, index)]))
    /\ AlgebraUnchanged
    /\ EngineUnchanged
    /\ MatcherUnchanged

\* SelectionMap::retain
MapRetain(m, keep) ==
    /\ maps' = [maps EXCEPT ![m] = retain(maps[m], keep)]
    /\ last' = [NoCall EXCEPT !.op = "retain", !.m = m, !.prev_len = len(maps[m])]
    /\ panicked' = (panicked
                    \/ (Len(RetainedVec(maps[m], keep).selections) < Cardinality(maps[m].table)
                        /\ ~RebuildAssertHolds(RetainedVec(maps[m], keep)))
                    \/ ~RetainAssertHolds(retain(maps[m], keep)))
    /\ AlgebraUnchanged
    /\ EngineUnchanged
    /\ MatcherUnchanged

\* SelectionMap::extend: `other` is consumed.
MapExtend(m) ==
    /\ len(maps[m]) + len(maps[3 - m]) <= MaxSelections
    /\ maps' = [maps EXCEPT ![m] = extend(maps[m], maps[3 - m]), ![3 - m] = new]
    /\ last' = [NoCall EXCEPT !.op = "extend", !.m = m, !.prev_len = len(maps[m])]
    /\ UNCHANGED panicked
    /\ AlgebraUnchanged
    /\ EngineUnchanged
    /\ MatcherUnchanged

\* SelectionMap::extend_ref
MapExtendRef(m) ==
    /\ len(maps[m]) + len(maps[3 - m]) <= MaxSelections
    /\ maps' = [maps EXCEPT ![m] = extend_ref(maps[m], maps[3 - m])]
    /\ last' = [NoCall EXCEPT !.op = "extend_ref", !.m = m, !.prev_len = len(maps[m])]
    /\ UNCHANGED panicked
    /\ AlgebraUnchanged
    /\ EngineUnchanged
    /\ MatcherUnchanged

\* FromIterator for SelectionMap
MapFromIter(m, seq) ==
    /\ maps' = [maps EXCEPT ![m] = from_iter(seq)]
    /\ last' = [NoCall EXCEPT !.op = "from_iter", !.m = m]
    /\ UNCHANGED panicked
    /\ AlgebraUnchanged
    /\ EngineUnchanged
    /\ MatcherUnchanged

\* SelectionMap::entry(key) followed by Entry::or_insert(|| Ok(value))
MapEntryOrInsert(m, key, value) ==
    /\ len(maps[m]) < MaxSelections
    /\ IF entry(maps[m], key) = "Occupied"
       THEN /\ maps' = maps
            /\ last' = [NoCall EXCEPT !.op = "or_insert", !.m = m, !.key = key,
                                      !.sel = value, !.found = TRUE,
                                      !.old = get(maps[m], key),
                                      !.prev_len = len(maps[m])]
       ELSE /\ maps' = [maps EXCEPT ![m] = VacantInsert(maps[m], key, value)]
            /\ last' = [NoCall EXCEPT !.op = "or_insert", !.m = m, !.key = key,
                                      !.sel = value, !.produced = TRUE,
                                      !.ok = VacantInsertOk(key, value),
                                      !.prev_len = len(maps[m])]
    /\ UNCHANGED panicked
    /\ AlgebraUnchanged
    /\ EngineUnchanged
    /\ MatcherUnchanged

NextMap ==
    \/ \E m \in 1..2, value \in MapValues : MapInsert(m, value)
    \/ \E m \in 1..2, key \in MapKeys : MapRemove(m, key)
    \/ \E m \in 1..2, keep \in SUBSET MapValues : MapRetain(m, keep)
    \/ \E m \in 1..2 : MapExtend(m)
    \/ \E m \in 1..2 : MapExtendRef(m)
    \/ \E m \in 1..2, seq \in MapSeqs : MapFromIter(m, seq)
    \/ \E m \in 1..2, key \in MapKeys, value \in MapValues : MapEntryOrInsert(m, key, value)

SpecMap == InitMap /\ [][NextMap]_vars

(***************************************************************************)
(* SpecAlgebra: minus, intersection and containment applied to pairs of    *)
(* selection sets on the parent type Q, or on the interface R, of the      *)
(* schema                                                                  *)
(*   interface R { b(arg: Int): Int }                                      *)
(*   type Q implements R { a: T  b(arg: Int): Int  s: Int }                *)
(*   type T { x: Int  y(arg: Int): Int }                                   *)
(* A result can be fed back as the next `self`.                            *)
(***************************************************************************)
MaxArg == 1

Args == 0..MaxArg

Leaf(name, arg) == FieldSel(name, name, arg, NoDirectives, None)

\* Sub-selections of `a` on T: empty, one leaf, or two leaves in either order.
AlgSubs ==
    {<<>>, <<Leaf("x", 0)>>}
    \cup {<<Leaf("y", k)>> : k \in Args}
    \cup {<<Leaf("x", 0), Leaf("y", k)>> : k \in Args}
    \cup {<<Leaf("y", k), Leaf("x", 0)>> : k \in Args}

\* The selections with response name `a`: `a { ... }` and the leaf alias `a: s`.
AlgA ==
    {<<>>, <<FieldSel("a", "s", 0, NoDirectives, None)>>}
    \cup {<<FieldSel("a", "a", 0, NoDirectives, Some(SelSet("T", sub)))>> : sub \in AlgSubs}

AlgB == {<<>>} \cup {<<Leaf("b", k)>> : k \in Args}

AlgInline == {<<>>, <<InlineSel("Q", NoDirectives, SelSet("Q", <<Leaf("b", 0)>>))>>}

\* The selection sets on the interface R: empty, and `b`.
AlgOnR == {SelSet("R", <<>>), SelSet("R", <<Leaf("b", 0)>>)}

AlgebraSets ==
    {SelSet("Q", a \o b \o i) : a \in AlgA, b \in AlgB, i \in AlgInline} \cup AlgOnR

MapFrozen == maps = [m \in 1..2 |-> new] /\ last = NoCall /\ panicked = FALSE

MapUnchanged == UNCHANGED <<maps, last, panicked>>

InitAlgebra ==
    /\ lhs \in AlgebraSets
    /\ rhs \in AlgebraSets
    /\ out = NoOut
    /\ MapFrozen
    /\ EngineFrozen
    /\ MatcherFrozen

\* self.minus(other)
DoMinus ==
    /\ out' = [out EXCEPT !.op = "minus", !.set = minus(lhs, rhs), !.rel = ""]
    /\ UNCHANGED <<lhs, rhs>>
    /\ MapUnchanged
    /\ EngineUnchanged
    /\ MatcherUnchanged

\* self.intersection(other)
DoIntersection ==
    /\ out' = [out EXCEPT !.op = "intersection", !.set = intersection(lhs, rhs), !.rel = ""]
    /\ UNCHANGED <<lhs, rhs>>
    /\ MapUnchanged
    /\ EngineUnchanged
    /\ MatcherUnchanged

\* self.containment(other, ContainmentOptions::default())
DoContainment ==
    /\ out' = [out EXCEPT !.op = "containment", !.set = Frozen,
                          !.rel = containment(lhs, rhs, FALSE)]
    /\ UNCHANGED <<lhs, rhs>>
    /\ MapUnchanged
    /\ EngineUnchanged
    /\ MatcherUnchanged

\* The result of the last minus or intersection becomes `self`.
Feed ==
    /\ out.op \in {"minus", "intersection"}
    /\ lhs' = out.set
    /\ out' = [NoOut EXCEPT !.fed = out.op]
    /\ UNCHANGED rhs
    /\ MapUnchanged
    /\ EngineUnchanged
    /\ MatcherUnchanged

NextAlgebra == DoMinus \/ DoIntersection \/ DoContainment \/ Feed

SpecAlgebra == InitAlgebra /\ [][NextAlgebra]_vars

(***************************************************************************)
(* Claims about the selection map, checked under SpecMap.                  *)
(***************************************************************************)

\* C5: after any sequence of insert, extend, extend_ref, from_iter,
\* entry-insert, remove and retain, no two entries of a selection map have
\* the same key.
C5_KeysAreUnique == \A m \in 1..2 : UniqueKeys(maps[m].selections)

\* C6: insert(sel) on a map that already holds the key of sel overwrites the
\* entry: the length is unchanged, get(key) returns sel, and the previous
\* value is no longer among values().
C6_InsertOverwrites ==
    (last.op = "insert" /\ last.found) =>
        /\ len(maps[last.m]) = last.prev_len
        /\ get(maps[last.m], last.key) = {last.sel}
        /\ \A o \in last.old : o # last.sel => o \notin Range(values(maps[last.m]))

\* Same key set and, key by key, equal values.
KeywiseEqual(a, b) ==
    /\ KeysOf(a.selections) = KeysOf(b.selections)
    /\ \A i \in DOMAIN a.selections, j \in DOMAIN b.selections :
          Key(a.selections[i]) = Key(b.selections[j])
              => SelEq(a.selections[i], b.selections[j])

\* C7: two selection maps compare equal exactly when they have the same key
\* set and equal values for each key, whatever the insertion order, and the
\* comparison is symmetric.
C7_EqIsKeywiseAndSymmetric ==
    /\ eq(maps[1], maps[2]) = {KeywiseEqual(maps[1], maps[2])}
    /\ eq(maps[2], maps[1]) = eq(maps[1], maps[2])

(***************************************************************************)
(* Claims about the set algebra, checked under SpecAlgebra.                *)
(***************************************************************************)

\* C8: for all S and T, S.minus(T).intersection(T) is empty, also when a key
\* has a sub-selection on one side only and when T's sub-selection is empty.
C8_MinusThenIntersectionIsEmpty ==
    /\ intersection(minus(lhs, rhs), rhs).selections = <<>>
    /\ (out.op = "intersection" /\ out.fed = "minus") => out.set.selections = <<>>

\* A non-empty difference has been intersected with a T that shares a key
\* with it, T's sub-selection under that key being empty.
C8_Witness ==
    /\ out.op = "intersection" /\ out.fed = "minus"
    /\ lhs.selections # <<>>
    /\ \E i \in DOMAIN lhs.selections, j \in DOMAIN rhs.selections :
          /\ Key(lhs.selections[i]) = Key(rhs.selections[j])
          /\ rhs.selections[j].selection_set = Some(SelSet("T", <<>>))

\* C9 as stated: S.intersection(T) and T.intersection(S) are equal up to
\* order, also when same-key selections differ in arguments or in having a
\* sub-selection.
C9_IntersectionCommutes ==
    SetEq(intersection(lhs, rhs), intersection(rhs, lhs))

\* Same-key selections of the two sets have the same element and both or
\* neither have a sub-selection, at every level.
RECURSIVE Agree(_, _)
Agree(s, t) ==
    /\ s.type_position = t.type_position
    /\ \A i \in DOMAIN s.selections, j \in DOMAIN t.selections :
          LET x == s.selections[i]
              y == t.selections[j]
          IN  Key(x) = Key(y) =>
                  /\ x.field_name = y.field_name
                  /\ x.arguments = y.arguments
                  /\ Len(x.selection_set) = Len(y.selection_set)
                  /\ (x.selection_set # None =>
                          Agree(x.selection_set[1], y.selection_set[1]))

\* C9 amended: intersection commutes up to order on sets whose same-key
\* selections agree.
C9_IntersectionCommutesWhenAgree ==
    Agree(lhs, rhs) => SetEq(intersection(lhs, rhs), intersection(rhs, lhs))

\* Two agreeing sets in different orders with a non-empty intersection.
C9_Witness ==
    /\ out.op = "intersection"
    /\ Agree(lhs, rhs)
    /\ out.set.selections # <<>>
    /\ out.set # intersection(rhs, lhs)
    /\ \E i \in DOMAIN out.set.selections :
          /\ out.set.selections[i].selection_set # None
          /\ Len(out.set.selections[i].selection_set[1].selections) = 2

\* Containment agrees with the two differences.
ContainmentIsDifference(s, t) ==
    /\ containment(s, t, FALSE) = "Equal"
          <=> (minus(s, t).selections = <<>> /\ minus(t, s).selections = <<>>)
    /\ containment(s, t, FALSE) = "StrictlyContained"
          <=> (minus(t, s).selections = <<>> /\ minus(s, t).selections # <<>>)

C13_ParentTypeOfSelf ==
    out.op \in {"minus", "intersection"} => out.set.type_position = lhs.type_position


\* `result` holds, in the order of `self`, the children of `self` for which
\* Emitted holds, each as Child gives it.
Childwise(self, result, Emitted(_), Child(_)) ==
    LET kept == SelectSeq(self.selections, Emitted)
    IN  /\ result.type_position = self.type_position
        /\ Len(result.selections) = Len(kept)
        /\ \A i \in DOMAIN kept : result.selections[i] = Child(kept[i])

HasSub(sel) == sel.selection_set # None

\* The difference of a pair of sets is computed child by child, and so are
\* the differences of the sub-selections of their same-key children.
RECURSIVE MinusIsChildwise(_, _)
MinusIsChildwise(s, t) ==
    LET Other(c) == Lookup(t.selections, Key(c))
        Sub(c) == minus(c.selection_set[1], Other(c).selection_set[1])
        Emitted(c) ==
            IF ~HasKey(t.selections, Key(c)) THEN TRUE
            ELSE HasSub(c) /\ HasSub(Other(c)) /\ Sub(c).selections # <<>>
        Child(c) ==
            IF ~HasKey(t.selections, Key(c)) THEN c
            ELSE [c EXCEPT !.selection_set = Some(Sub(c))]
    IN  /\ Childwise(s, minus(s, t), Emitted, Child)
        /\ \A i \in DOMAIN s.selections :
              LET c == s.selections[i]
              IN  (HasKey(t.selections, Key(c)) /\ HasSub(c) /\ HasSub(Other(c)))
                      => MinusIsChildwise(c.selection_set[1], Other(c).selection_set[1])

\* C17: S.minus(T) holds, in S's order, every child of S whose key T lacks,
\* verbatim, and every child whose key T has when both children have
\* sub-selections with a non-empty difference, that difference being its
\* sub-selection; for the other children it holds nothing.
C17_MinusIsChildwise ==
    out.op = "minus" => out.set = minus(lhs, rhs) /\ MinusIsChildwise(lhs, rhs)

\* A difference that keeps one child verbatim and one with the difference
\* of the sub-selections.
C17_Witness ==
    /\ out.op = "minus"
    /\ \E i \in DOMAIN out.set.selections :
          /\ HasKey(rhs.selections, Key(out.set.selections[i]))
          /\ out.set.selections[i] # Lookup(lhs.selections, Key(out.set.selections[i]))
    /\ \E i \in DOMAIN out.set.selections :
          ~HasKey(rhs.selections, Key(out.set.selections[i]))

\* A difference that drops a child of which only one side has a
\* sub-selection, next to a child it keeps.
C17_WitnessOneSided ==
    /\ out.op = "minus"
    /\ out.set.selections # <<>>
    /\ \E i \in DOMAIN lhs.selections :
          /\ HasKey(rhs.selections, Key(lhs.selections[i]))
          /\ HasSub(lhs.selections[i]) # HasSub(Lookup(rhs.selections, Key(lhs.selections[i])))
          /\ ~HasKey(out.set.selections, Key(lhs.selections[i]))

\* The children of the intersection of a pair of sets, and of the
\* intersections of the sub-selections of their same-key children, are the
\* children of `s` whose key `t` has: with the intersection of the
\* sub-selections when both have one and it is not empty, and the copy of
\* `s` when the two do not both have one; with `leaves_only`, the copy is
\* expected only when neither has one.
RECURSIVE IntersectionIsChildwise(_, _, _)
IntersectionIsChildwise(s, t, leaves_only) ==
    LET Other(c) == Lookup(t.selections, Key(c))
        Sub(c) == intersection(c.selection_set[1], Other(c).selection_set[1])
        Emitted(c) ==
            /\ HasKey(t.selections, Key(c))
            /\ IF HasSub(c) /\ HasSub(Other(c)) THEN Sub(c).selections # <<>>
               ELSE leaves_only => (~HasSub(c) /\ ~HasSub(Other(c)))
        Child(c) ==
            IF HasSub(c) /\ HasSub(Other(c))
            THEN [c EXCEPT !.selection_set = Some(Sub(c))]
            ELSE c
        kept == SelectSeq(s.selections, Emitted)
        result == intersection(s, t).selections
    IN  /\ Len(result) = Len(kept)
        /\ \A i \in DOMAIN kept : result[i] = Child(kept[i])
        /\ \A i \in DOMAIN s.selections :
              LET c == s.selections[i]
              IN  (HasKey(t.selections, Key(c)) /\ HasSub(c) /\ HasSub(Other(c)))
                      => IntersectionIsChildwise(c.selection_set[1],
                                                 Other(c).selection_set[1], leaves_only)

\* C18 as stated: S.intersection(T) holds a child of S only when T has its
\* key: with the recursive intersection as sub-selection when both children
\* have sub-selections and it is not empty, and as the copy of S only if
\* neither child has a sub-selection.
C18_IntersectionCopiesLeavesOnly ==
    out.op = "intersection" =>
        out.set = intersection(lhs, rhs) /\ IntersectionIsChildwise(lhs, rhs, TRUE)

\* C18: the same, the copy of S being taken whenever the two children do not
\* both have a sub-selection: when neither has one and when only one has.
C18_IntersectionCopiesUnlessBothHaveSub ==
    out.op = "intersection" =>
        out.set = intersection(lhs, rhs) /\ IntersectionIsChildwise(lhs, rhs, FALSE)

\* An intersection holds the copy of a child of S of which only one side has
\* a sub-selection, next to a child with the intersection of two
\* sub-selections or a copied leaf.
C18_Witness ==
    /\ out.op = "intersection"
    /\ Len(out.set.selections) >= 2
    /\ \E i \in DOMAIN out.set.selections :
          LET c == out.set.selections[i]
          IN  /\ HasKey(rhs.selections, Key(c))
              /\ HasSub(c) # HasSub(Lookup(rhs.selections, Key(c)))
              /\ c = Lookup(lhs.selections, Key(c))

(***************************************************************************)
(* Spec: Operation::reuse_fragments applied to operations and catalogs     *)
(* written against the schema above.                                       *)
(***************************************************************************)
MaxFragments == 2

MaxCalls == 2

OnType(type_condition, selections) ==
    InlineSel(type_condition, NoDirectives, SelSet(type_condition, selections))

FieldA(selections) == FieldSel("a", "a", 0, NoDirectives, Some(SelSet("A", selections)))

FieldI(name, selections) ==
    FieldSel(name, name, 0, NoDirectives, Some(SelSet("I", selections)))

\* The fragment pool, dependencies first.
FragA == Fragment("FragA", "A", <<Leaf("x", 0), Leaf("y", 0)>>)

FragX == Fragment("FragX", "A", <<Leaf("x", 0)>>)

FragT == Fragment("FragT", "A", <<Leaf("__typename", 0), Leaf("x", 0)>>)

FragU1 ==
    Fragment("FragU1", "U",
        <<OnType("A", <<Leaf("x", 0)>>),
          OnType("B", <<FieldSel("k", "m", 0, NoDirectives, None)>>)>>)

FragU2 ==
    Fragment("FragU2", "U",
        <<OnType("A", <<Leaf("y", 0)>>),
          OnType("B", <<FieldSel("k", "n", 0, NoDirectives, None)>>)>>)

FragI == Fragment("FragI", "I", <<FieldA(<<from_fragment(FragA, NoDirectives)>>)>>)

FragD ==
    Fragment("FragD", "I",
        <<OnType("T1", <<FieldA(<<Leaf("x", 0)>>)>>),
          OnType("T2", <<FieldA(<<from_fragment(FragA, NoDirectives)>>)>>)>>)

Pool == <<FragA, FragX, FragT, FragU1, FragU2, FragI, FragD>>

\* A catalog holds the fragments its fragments spread.
Closed(catalog) ==
    \A i \in DOMAIN catalog : SpreadNames(catalog[i].selection_set) \subseteq Names(catalog)

RECURSIVE SubPool(_, _)
SubPool(pool, chosen) ==
    IF pool = <<>> THEN <<>>
    ELSE (IF Head(pool).name \in chosen THEN <<Head(pool)>> ELSE <<>>)
         \o SubPool(Tail(pool), chosen)

Catalogs ==
    {catalog \in {SubPool(Pool, chosen) :
                     chosen \in {c \in SUBSET Names(Pool) : Cardinality(c) <= MaxFragments}} :
        Closed(catalog)}

\* The selections of `a`, and of `i` / `j`: `a` under T1, under T2 or both.
SubsOfA ==
    {<<Leaf("x", 0)>>, <<Leaf("y", 0)>>, <<Leaf("x", 0), Leaf("y", 0)>>,
     <<Leaf("__typename", 0), Leaf("x", 0)>>}

Branches(type_condition) ==
    {<<>>} \cup {<<OnType(type_condition, <<FieldA(sub)>>)>> : sub \in SubsOfA}

BodiesOfI == {b1 \o b2 : b1 \in Branches("T1"), b2 \in Branches("T2")} \ {<<>>}

\* Query { a i j }: `a` is selected or not, `j` repeats `i` or is not selected.
Operations ==
    {[selection_set |->
          SelSet("Query",
              (IF top THEN <<FieldA(<<Leaf("x", 0), Leaf("y", 0)>>)>> ELSE <<>>)
              \o <<FieldI("i", body)>>
              \o (IF twice THEN <<FieldI("j", body)>> ELSE <<>>)),
      named_fragments |-> <<>>, variables |-> {},
      name |-> None, root_kind |-> "query", directives |-> NoDirectives]
     : body \in BodiesOfI, top \in BOOLEAN, twice \in BOOLEAN}

Init ==
    /\ operation \in Operations
    /\ given \in Catalogs
    /\ before = operation.selection_set
    /\ outcome = NoOutcome
    /\ calls = 0
    /\ MapFrozen
    /\ AlgebraFrozen
    /\ MatcherFrozen

Call(result, min_usages) ==
    /\ calls < MaxCalls
    /\ operation' = result.operation
    /\ outcome' = [ok |-> result.ok, min_usages |-> min_usages, previous |-> operation]
    /\ calls' = calls + 1
    /\ UNCHANGED before
    /\ MapUnchanged
    /\ AlgebraUnchanged
    /\ MatcherUnchanged

\* operation.reuse_fragments(given)
ReuseFragments ==
    \E result \in {operation_reuse_fragments(operation, given)} :
        Call(result, DEFAULT_MIN_USAGES_TO_OPTIMIZE) /\ UNCHANGED given

\* operation.reuse_fragments_for_roundtrip_test(given)
ReuseFragmentsForRoundtripTest ==
    \E result \in {reuse_fragments_for_roundtrip_test(operation, given)} :
        Call(result, 1) /\ UNCHANGED given

\* operation.reuse_fragments(&NamedFragments::default()): the caller has no
\* fragment left to offer.
ReuseFragmentsOfEmptyCatalog ==
    \E result \in {operation_reuse_fragments(operation, <<>>)} :
        Call(result, DEFAULT_MIN_USAGES_TO_OPTIMIZE) /\ given' = <<>>

Next == ReuseFragments \/ ReuseFragmentsForRoundtripTest \/ ReuseFragmentsOfEmptyCatalog

Spec == Init /\ [][Next]_vars


(***************************************************************************)
(* Claims about Operation::reuse_fragments, checked under Spec.            *)
(***************************************************************************)
\* The fields a level of merged selection sets holds, fragments entered.
FieldsAt(level) == UNION {field_selections(ss) : ss \in level}

\* SameResponseShape and FieldsInSetCanMerge of the GraphQL specification on
\* a level of selection sets in which no fragment spread is left.
RECURSIVE SameResponseShape(_, _)
SameResponseShape(f, g) ==
    /\ types_can_be_merged(f.field, g.field)
    /\ (f.selection_set = None) = (g.selection_set = None)
    /\ f.selection_set # None /\ g.selection_set # None =>
          \A sf \in FieldsAt({f.selection_set[1], g.selection_set[1]}) :
          \A sg \in FieldsAt({f.selection_set[1], g.selection_set[1]}) :
              sf.field.name = sg.field.name => SameResponseShape(sf, sg)

RECURSIVE FieldsInSetCanMerge(_)
FieldsInSetCanMerge(level) ==
    \A f \in FieldsAt(level) : \A g \in FieldsAt(level) :
        f.field.name = g.field.name =>
            /\ SameResponseShape(f, g)
            /\ \/ f.field.parent_type_position = g.field.parent_type_position
               \/ ~is_object_type(f.field.parent_type_position)
               \/ ~is_object_type(g.field.parent_type_position)
               => /\ f.field.field_name = g.field.field_name
                  /\ f.field.arguments = g.field.arguments
                  /\ f.selection_set # None /\ g.selection_set # None =>
                        FieldsInSetCanMerge({f.selection_set[1], g.selection_set[1]})

\* The selection set with every spread read as its fragment's full body.
FullBodies(ss) == expand_all_fragments(ss)

\* The expansion of a selection set to normal form.
Expanded(ss) == flatten_unnecessary_fragments(expand_all_fragments(ss), ss.type_position)

\* `rewritten` holds every selection of `original`, and what it holds more
\* are __typename fields without directives.
RECURSIVE AddsOnlyTypename(_, _)
AddsOnlyTypename(original, rewritten) ==
    /\ original.type_position = rewritten.type_position
    /\ \A i \in DOMAIN original.selections :
          HasKey(rewritten.selections, Key(original.selections[i]))
    /\ \A j \in DOMAIN rewritten.selections :
          LET r == rewritten.selections[j]
          IN  IF ~HasKey(original.selections, Key(r)) THEN is_typename_field(Key(r))
              ELSE LET o == Lookup(original.selections, Key(r))
                   IN  /\ [o EXCEPT !.selection_set = None] = [r EXCEPT !.selection_set = None]
                       /\ (o.selection_set = None) = (r.selection_set = None)
                       /\ o.selection_set # None =>
                             AddsOnlyTypename(o.selection_set[1], r.selection_set[1])

Succeeded == calls >= 1 /\ outcome.ok

Rewritten == Succeeded /\ operation # outcome.previous

\* C1 as stated: the expansion of the result of reuse_fragments equals the
\* expansion of the operation it was given, whatever the order of the
\* selections; no selection is added or lost.
C1_ExpansionIsPreserved ==
    Succeeded => SetEq(Expanded(operation.selection_set), Expanded(before))

\* C1: the expansion of the result of reuse_fragments holds every selection
\* of the expansion of the operation it was given, and the selections it
\* holds more are __typename fields without directives, which a reused
\* fragment selects and the operation did not.
C1_ExpansionAddsOnlyTypename ==
    Succeeded => AddsOnlyTypename(Expanded(before), Expanded(operation.selection_set))

C1_Witness ==
    /\ Rewritten
    /\ contains_fragment_spread(operation.selection_set)
    /\ ~SetEq(Expanded(operation.selection_set), Expanded(before))
    /\ AddsOnlyTypename(Expanded(before), Expanded(operation.selection_set))

\* C2: when reuse_fragments rewrites an operation whose selection set
\* satisfies FieldsInSetCanMerge, the rewritten selection set satisfies it
\* too with every spread read as the full body of its fragment, the
\* branches that are dead at the spread included.
C2_RewriteKeepsFieldsMergeable ==
    Rewritten /\ FieldsInSetCanMerge({FullBodies(outcome.previous.selection_set)})
        => FieldsInSetCanMerge({FullBodies(operation.selection_set)})

\* C3 as stated: a second reuse_fragments with the same catalog and
\* threshold on the result of the first succeeds and leaves the operation,
\* selection set and catalog, as the first left it.
C3_SecondApplicationSucceedsUnchanged ==
    [][calls = 1 /\ calls' = 2 /\ outcome.ok /\ outcome'.min_usages = outcome.min_usages
             /\ given' = given
          => outcome'.ok /\ operation' = operation]_vars

\* C3: a second reuse_fragments with the same catalog and threshold on the
\* result of the first leaves the operation, selection set and catalog, as
\* the first left it; it succeeds when that result holds no fragment spread
\* or the catalog is empty, and returns the internal error otherwise.
C3_SecondApplicationLeavesOperation ==
    [][calls = 1 /\ calls' = 2 /\ outcome.ok /\ outcome'.min_usages = outcome.min_usages
             /\ given' = given
          => /\ operation' = operation
             /\ outcome'.ok = (\/ given = <<>>
                               \/ ~contains_fragment_spread(operation.selection_set))]_vars

C3_Witness ==
    /\ calls = 2
    /\ ~outcome.ok
    /\ operation = outcome.previous
    /\ contains_fragment_spread(operation.selection_set)
    /\ operation.named_fragments # <<>>

\* The spreads of `name` in the selection set and in the bodies of the
\* fragments of the catalog.
RECURSIVE SpreadsInBodies(_, _)
SpreadsInBodies(catalog, name) ==
    IF catalog = <<>> THEN 0
    ELSE UsageCount(Head(catalog).selection_set, name) + SpreadsInBodies(Tail(catalog), name)

Spreads(op, name) ==
    UsageCount(op.selection_set, name) + SpreadsInBodies(op.named_fragments, name)

C11_SpreadsAreAnInternalError ==
    [][calls' = calls + 1 /\ contains_fragment_spread(operation.selection_set)
          => ~outcome'.ok /\ operation'.selection_set = operation.selection_set]_vars

(***************************************************************************)
(* SpecOperation: the same calls on operations that have a name, root      *)
(* directives and variable definitions, with a catalog in which a fragment *)
(* uses a variable in a branch that is dead under T1.                      *)
(***************************************************************************)
\* fragment FragV on I { ... on T1 { a { x } } ... on T2 { a { y @include(if: $v) } } }
FragV ==
    [Fragment("FragV", "I",
        <<OnType("T1", <<FieldA(<<Leaf("x", 0)>>)>>),
          OnType("T2", <<FieldA(<<FieldSel("y", "y", 0, <<"include(if: $v)">>, None)>>)>>)>>)
     EXCEPT !.variables = {"v"}]

PoolOfOperation == <<FragA, FragX, FragV>>

CatalogsOfOperation ==
    {catalog \in {SubPool(PoolOfOperation, chosen) :
                     chosen \in {c \in SUBSET Names(PoolOfOperation) :
                                    Cardinality(c) <= MaxFragments}} :
        Closed(catalog)}

\* The selections of `i` / `j`: `a` under T1, and `a { y }` under T2 or not.
BodiesOfOperation ==
    {b1 \o b2 : b1 \in Branches("T1") \ {<<>>},
                b2 \in {<<>>, <<OnType("T2", <<FieldA(<<Leaf("y", 0)>>)>>)>>}}

\* query { i j } and query Q @live { i j }, with and without $v declared.
NamedOperations ==
    {[selection_set |->
          SelSet("Query",
              <<FieldI("i", body)>> \o (IF twice THEN <<FieldI("j", body)>> ELSE <<>>)),
      named_fragments |-> <<>>, variables |-> variables,
      name |-> IF named THEN Some("Q") ELSE None, root_kind |-> "query",
      directives |-> IF named THEN <<"live">> ELSE NoDirectives]
     : body \in BodiesOfOperation, twice \in BOOLEAN, variables \in {{}, {"v"}},
       named \in BOOLEAN}

InitOperation ==
    /\ operation \in NamedOperations
    /\ given \in CatalogsOfOperation
    /\ before = operation.selection_set
    /\ outcome = NoOutcome
    /\ calls = 0
    /\ MapFrozen
    /\ AlgebraFrozen
    /\ MatcherFrozen

SpecOperation == InitOperation /\ [][Next]_vars

\* C12: a call of reuse_fragments, returning Ok or the error, leaves the
\* operation's name, variables, root kind and root directives as they were;
\* and when the selection set reuse_fragments rewrote equals the input (no
\* fragment was reused) the operation's selection set and catalog are left
\* exactly as they were.
C12_CallChangesSelectionSetAndCatalogOnly ==
    [][calls' = calls + 1
          => /\ operation'.name = operation.name
             /\ operation'.variables = operation.variables
             /\ operation'.root_kind = operation.root_kind
             /\ operation'.directives = operation.directives
             /\ (\/ ~outcome'.ok
                 \/ SetEq(operation.selection_set,
                          reuse_fragments(operation.selection_set,
                              for_operation(given', operation.variables)).selection_set))
                   => /\ operation'.selection_set = operation.selection_set
                      /\ operation'.named_fragments = operation.named_fragments]_vars

\* A named operation with variables and directives was given a catalog of
\* which no fragment could be reused.
C12_Witness ==
    /\ calls >= 1
    /\ outcome.ok
    /\ given # <<>>
    /\ operation.name # None
    /\ operation.variables # {}
    /\ operation.directives # NoDirectives
    /\ operation = outcome.previous
    /\ ~contains_fragment_spread(operation.selection_set)

(***************************************************************************)
(* SpecApply: try_apply_fragments on one selection set of the type A, the  *)
(* sub-selection of a field or the body of `... on A @dir`, with a catalog *)
(* in any order and a validator that may already track a fragment reused   *)
(* at the same level.                                                      *)
(***************************************************************************)
FragY == Fragment("FragY", "A", <<Leaf("y", 0)>>)

\* fragment FragXD on A @dir { x }
FragXD == [Fragment("FragXD", "A", <<Leaf("x", 0)>>) EXCEPT !.directives = <<"dir">>]

\* fragment FragUD on U @dir { ... on A { x } ... on B { k: m } }
FragUD == [FragU1 EXCEPT !.name = "FragUD", !.directives = <<"dir">>]

PoolOfApply == {FragA, FragX, FragY, FragXD, FragU1, FragU2, FragUD}

\* The directive lists of the inline fragment wrapped around site.self.
DirectivesOfInline == {NoDirectives, <<"dir">>, <<"other", "dir">>}

\* The catalogs of at most MaxFragments fragments of the pool, in any order.
CatalogsOfApply ==
    {catalog \in UNION {[1..n -> PoolOfApply] : n \in 0..MaxFragments} :
        \A i, j \in DOMAIN catalog : i # j => catalog[i] # catalog[j]}

SelvesOfApply ==
    {SelSet("A", sub) :
        sub \in {<<Leaf("x", 0)>>, <<Leaf("x", 0), Leaf("y", 0)>>,
                 <<Leaf("y", 0), Leaf("x", 0)>>,
                 <<Leaf("x", 0), Leaf("y", 0), Leaf("z", 0)>>,
                 <<Leaf("z", 0), Leaf("y", 0), Leaf("x", 0)>>,
                 <<Leaf("__typename", 0), Leaf("x", 0)>>}}

ConditionsOfApply == {ForFieldSelection, ForInlineFragmentSelection("A", <<"dir">>)}

InitApply ==
    /\ site \in [self : SelvesOfApply, fragments : CatalogsOfApply,
                 tracked : {<<>>, <<FragU2>>}]
    /\ applied = NoApplied
    /\ MapFrozen
    /\ AlgebraFrozen
    /\ EngineFrozen

\* The validator of the level of site.self, after the fragments of
\* site.tracked were reused at that level.
RECURSIVE Tracking(_, _, _)
Tracking(validator, tracked, parent_type) ==
    IF tracked = <<>> THEN validator
    ELSE Tracking(check_can_reuse_fragment_and_track_it(validator,
                      expanded_selection_set_at_type(Head(tracked), parent_type))[2],
                  Tail(tracked), parent_type)

ValidatorOfSite ==
    Tracking(from_initial_validator(from_selection_set_validator(site.self)),
             site.tracked, site.self.type_position)

\* site.self.try_apply_fragments(parent_type, context, validator, .., condition);
\* `collected` is what its first loop leaves: the full match or the
\* applicable list.
TryApplyFragments(condition) ==
    /\ \E result \in {try_apply_fragments(site.self, site.self.type_position,
                          for_operation(site.fragments, {}), ValidatorOfSite, condition)},
          collected \in {CollectApplicable(site.self, site.self.type_position,
                          for_operation(site.fragments, {}), ValidatorOfSite, condition,
                          get_all_may_apply_directly_at_type(site.fragments,
                                                             site.self.type_position),
                          <<>>)} :
          applied' = [op |-> "try_apply_fragments", condition |-> condition,
                      full |-> collected.full,
                      applicable |-> [i \in DOMAIN collected.applicable |->
                                         collected.applicable[i].fragment.name],
                      fragment |-> result.fragment,
                      selection_set |-> result.selection_set]
    /\ UNCHANGED site
    /\ MapUnchanged
    /\ AlgebraUnchanged
    /\ EngineUnchanged

\* validator.check_can_reuse_fragment_and_track_it(&at_type) for the i-th
\* fragment of the catalog, at the level of site.self.
CheckCanReuseFragmentAndTrackIt(i) ==
    /\ i \in DOMAIN site.fragments
    /\ can_apply_directly_at_type(site.fragments[i], site.self.type_position)
    /\ \E at_type \in {expanded_selection_set_at_type(site.fragments[i],
                                                     site.self.type_position)},
          validator \in {ValidatorOfSite} :
          \E result \in {check_can_reuse_fragment_and_track_it(validator, at_type)} :
             applied' = [op |-> "check_can_reuse_fragment_and_track_it",
                         fragment_restriction |-> at_type,
                         validator |-> validator,
                         accepted |-> result[1],
                         tracked |-> result[2]]
    /\ UNCHANGED site
    /\ MapUnchanged
    /\ AlgebraUnchanged
    /\ EngineUnchanged

\* (... on t @directives { site.self }).reuse_fragments_inner(context, validator),
\* t the type of site.self; `full` is what its call of try_apply_fragments
\* returned as a full match.
InlineFragmentReuseFragmentsInner(directives) ==
    /\ \E self \in {InlineSel(site.self.type_position, directives, site.self)},
          validator \in {ValidatorOfSite} :
          \E opt \in {try_apply_fragments(site.self, site.self.type_position,
                          for_operation(site.fragments, {}), validator,
                          ForInlineFragmentSelection(site.self.type_position, directives))},
             result \in {inline_reuse_fragments_inner(self,
                          for_operation(site.fragments, {}), validator)} :
             applied' = [op |-> "inline_reuse_fragments_inner", self |-> self,
                         full |-> opt.fragment, selection |-> result[1]]
    /\ UNCHANGED site
    /\ MapUnchanged
    /\ AlgebraUnchanged
    /\ EngineUnchanged

NextApply ==
    \/ \E condition \in ConditionsOfApply : TryApplyFragments(condition)
    \/ \E directives \in DirectivesOfInline : InlineFragmentReuseFragmentsInner(directives)
    \/ \E i \in 1..MaxFragments : CheckCanReuseFragmentAndTrackIt(i)

SpecApply == InitApply /\ [][NextApply]_vars

(***************************************************************************)
(* Claims about try_apply_fragments, checked under SpecApply.              *)
(***************************************************************************)
IndexOfName(catalog, name) == CHOOSE i \in DOMAIN catalog : catalog[i].name = name

IsSpread(sel) == sel.kind = "FragmentSpread"

IsNoSpread(sel) == sel.kind # "FragmentSpread"

\* What the fragments named `accepted` leave uncovered of `self`.
RECURSIVE Uncovered(_, _, _, _)
Uncovered(self, catalog, accepted, not_covered_so_far) ==
    IF accepted = <<>> THEN not_covered_so_far
    ELSE Uncovered(self, catalog, Tail(accepted),
             intersection(not_covered_so_far,
                 minus(self,
                       expanded_selection_set_at_type(
                           catalog[IndexOfName(catalog, Head(accepted).name)],
                           self.type_position).selections)))

\* C14: a result of try_apply_fragments that is not a full match lists the
\* spreads of the accepted fragments first, one each and in catalog order,
\* and then the uncovered selections in the order they have in S; the
\* uncovered selections are the running intersection, over the accepted
\* fragments, of S.minus(restriction.selections).
C14_SpreadsThenUncovered ==
    applied.op = "try_apply_fragments" /\ applied.fragment = None =>
        LET selections == applied.selection_set.selections
            spreads == SelectSeq(selections, IsSpread)
            rest == SelectSeq(selections, IsNoSpread)
        IN  /\ selections = spreads \o rest
            /\ \A i \in DOMAIN spreads :
                  /\ spreads[i].name \in
                        {applied.applicable[k] : k \in DOMAIN applied.applicable}
                  /\ spreads[i] =
                        from_fragment(site.fragments[IndexOfName(site.fragments,
                                                                 spreads[i].name)],
                                      NoDirectives)
            /\ \A i, j \in DOMAIN spreads :
                  i < j => IndexOfName(site.fragments, spreads[i].name)
                              < IndexOfName(site.fragments, spreads[j].name)
            /\ rest = Uncovered(site.self, site.fragments, spreads, site.self).selections
            /\ \A i, j \in DOMAIN rest :
                  i < j => IndexOfKey(site.self.selections, Key(rest[i]))
                              < IndexOfKey(site.self.selections, Key(rest[j]))

\* Two fragments were spread, in catalog order, before an uncovered rest.
C14_Witness ==
    /\ applied.op = "try_apply_fragments"
    /\ applied.fragment = None
    /\ Len(applied.selection_set.selections) >= 3
    /\ IsSpread(applied.selection_set.selections[2])
    /\ ~IsSpread(applied.selection_set.selections[3])

\* A fragment of the applicable list was rejected by the validator and its
\* selections are left uncovered.
C14_WitnessRejected ==
    /\ applied.op = "try_apply_fragments"
    /\ applied.fragment = None
    /\ Len(applied.applicable) = 2
    /\ Len(SelectSeq(applied.selection_set.selections, IsSpread)) = 1
    /\ Len(applied.selection_set.selections) = 2
    /\ site.tracked = <<>>

\* The fragments spread in a selection set, at any depth outside fragment
\* bodies: the spreads carry variables through the catalog they come from.
SpreadFragments(ss, catalog) ==
    {catalog[i] : i \in {k \in DOMAIN catalog : UsageCount(ss, catalog[k].name) > 0}}

\* C15: after a successful reuse_fragments, every fragment spread in the
\* operation's selection set, and every fragment of its catalog, uses only
\* variables the operation declares.
C15_SpreadsUseDeclaredVariables ==
    Succeeded =>
        /\ \A f \in SpreadFragments(operation.selection_set, given) :
              used_variables(f) \subseteq operation.variables
        /\ \A i \in DOMAIN operation.named_fragments :
              used_variables(operation.named_fragments[i]) \subseteq operation.variables

\* The selection set of the first `... on T1` of field `i`.
UnderT1(ss) == ss.selections[1].selection_set[1].selections[1].selection_set[1]

\* The operation does not declare $v, FragV uses it, and the restriction of
\* FragV at T1 equals the selections under `... on T1`, which the call has
\* left expanded.
C15_Witness ==
    /\ Succeeded
    /\ operation.variables = {}
    /\ \E i \in DOMAIN given : given[i] = FragV
    /\ UnderT1(operation.selection_set).type_position = "T1"
    /\ containment(UnderT1(operation.selection_set),
                   expanded_selection_set_at_type(FragV, "T1").selections, TRUE) = "Equal"

\* With $v declared, FragV is spread.
C15_WitnessDeclared ==
    /\ Succeeded
    /\ operation.variables = {"v"}
    /\ UsageCount(operation.selection_set, "FragV") > 0

\* The candidate's restriction at the type of site.self equals site.self
\* and the candidate satisfies the full-match condition of the call.
FullyMatches(candidate) ==
    LET at_type == expanded_selection_set_at_type(candidate, site.self.type_position)
    IN  /\ ~is_useless(at_type)
        /\ containment(site.self, at_type.selections, TRUE) = "Equal"
        /\ full_match_check(applied.condition, candidate)

\* The validator the call was given accepts the candidate's restriction.
ValidatorAccepts(candidate) ==
    check_can_reuse_fragment_and_track_it(ValidatorOfSite,
        expanded_selection_set_at_type(candidate, site.self.type_position))[1]

\* C16: try_apply_fragments returns the first candidate, in catalog order,
\* whose restriction is Equal to the selection set, that satisfies the
\* full-match condition and that the validator accepts, alone, whatever
\* partially applicable fragments precede it; and a candidate that is Equal
\* and satisfies the condition but is rejected by the validator is not in
\* the applicable list.
C16_FirstAcceptedFullMatchAlone ==
    applied.op = "try_apply_fragments" =>
        LET candidates ==
                get_all_may_apply_directly_at_type(site.fragments,
                                                   site.self.type_position)
            full == {i \in DOMAIN candidates :
                        FullyMatches(candidates[i]) /\ ValidatorAccepts(candidates[i])}
        IN  /\ full # {} =>
                  LET first == CHOOSE i \in full : \A j \in full : i <= j
                  IN  /\ applied.fragment = Some(candidates[first])
                      /\ \A k \in DOMAIN applied.applicable :
                            IndexOfName(candidates, applied.applicable[k]) < first
            /\ full = {} => applied.fragment = None
            /\ \A i \in DOMAIN candidates :
                  FullyMatches(candidates[i]) /\ ~ValidatorAccepts(candidates[i])
                      => \A k \in DOMAIN applied.applicable :
                            applied.applicable[k] # candidates[i].name

\* A full match was returned after a partially applicable fragment had been
\* collected.
C16_Witness ==
    /\ applied.op = "try_apply_fragments"
    /\ applied.fragment # None
    /\ applied.applicable # <<>>

\* A candidate that fully matches was rejected by the validator.
C16_WitnessRejected ==
    /\ applied.op = "try_apply_fragments"
    /\ applied.fragment = None
    /\ \E i \in DOMAIN site.fragments :
          /\ can_apply_directly_at_type(site.fragments[i], site.self.type_position)
          /\ FullyMatches(site.fragments[i])
          /\ ~ValidatorAccepts(site.fragments[i])

(***************************************************************************)
(* SpecMatch: the fragment matcher on one catalog, in any order:           *)
(* get_all_may_apply_directly_at_type at every composite type and          *)
(* expanded_selection_set_at_type of the fragments that apply.             *)
(***************************************************************************)
\* fragment FragN on A { x ... on A { y } }
FragN == Fragment("FragN", "A", <<Leaf("x", 0), OnType("A", <<Leaf("y", 0)>>)>>)

\* fragment FragI1 on I { a { x } ... on T2 { a { y } } }
FragI1 ==
    Fragment("FragI1", "I",
        <<FieldA(<<Leaf("x", 0)>>), OnType("T2", <<FieldA(<<Leaf("y", 0)>>)>>)>>)

\* fragment FragIa on I { a { x } }
FragIa == Fragment("FragIa", "I", <<FieldA(<<Leaf("x", 0)>>)>>)

PoolOfMatch == {FragX, FragN, FragU1, FragI1, FragIa}

CatalogsOfMatch ==
    {catalog \in UNION {[1..n -> PoolOfMatch] : n \in 0..MaxFragments} :
        \A i, j \in DOMAIN catalog : i # j => catalog[i] # catalog[j]}

InitMatch ==
    /\ site \in [self : {Frozen}, fragments : CatalogsOfMatch, tracked : {<<>>}]
    /\ applied = NoApplied
    /\ MapFrozen
    /\ AlgebraFrozen
    /\ EngineFrozen

\* site.fragments.get_all_may_apply_directly_at_type(ty)
GetAllMayApplyDirectlyAtType(ty) ==
    /\ applied' = [op |-> "get_all_may_apply_directly_at_type", ty |-> ty,
                   yielded |-> get_all_may_apply_directly_at_type(site.fragments, ty)]
    /\ UNCHANGED site
    /\ MapUnchanged
    /\ AlgebraUnchanged
    /\ EngineUnchanged

\* candidate.expanded_selection_set_at_type(ty), for a candidate that
\* get_all_may_apply_directly_at_type(ty) yields.
ExpandedSelectionSetAtType(i, ty) ==
    /\ can_apply_directly_at_type(site.fragments[i], ty)
    /\ applied' = [op |-> "expanded_selection_set_at_type", ty |-> ty,
                   fragment |-> site.fragments[i],
                   at_type |-> expanded_selection_set_at_type(site.fragments[i], ty)]
    /\ UNCHANGED site
    /\ MapUnchanged
    /\ AlgebraUnchanged
    /\ EngineUnchanged

NextMatch ==
    \/ \E ty \in CompositeTypes : GetAllMayApplyDirectlyAtType(ty)
    \/ \E i \in DOMAIN site.fragments, ty \in CompositeTypes :
          ExpandedSelectionSetAtType(i, ty)

SpecMatch == InitMatch /\ [][NextMatch]_vars

(***************************************************************************)
(* Claims about the fragment matcher, checked under SpecMatch.             *)
(***************************************************************************)
\* The condition of the fragment is `ty`, or is abstract with at least the
\* possible runtime types of `ty`.
AtLeastAsGeneral(fragment, ty) ==
    \/ fragment.type_condition_position = ty
    \/ /\ is_abstract_type(fragment.type_condition_position)
       /\ possible_runtime_types(ty)
             \subseteq possible_runtime_types(fragment.type_condition_position)

\* C19 as stated: get_all_may_apply_directly_at_type(ty) yields, in catalog
\* order, exactly the fragments whose condition is `ty`, or is abstract with
\* a superset of the possible runtime types of `ty`; a fragment on an object
\* type is yielded only at that type.
C19_YieldsTheAtLeastAsGeneral ==
    applied.op = "get_all_may_apply_directly_at_type" =>
        LET Claimed(fragment) == AtLeastAsGeneral(fragment, applied.ty)
        IN  /\ applied.yielded = SelectSeq(site.fragments, Claimed)
            /\ \A i \in DOMAIN applied.yielded :
                  is_object_type(applied.yielded[i].type_condition_position)
                      => applied.yielded[i].type_condition_position = applied.ty

\* The trimmed part: the expanded selection set of the fragment minus the
\* selections of its restriction.
TrimmedPart(fragment, at_type) ==
    minus(expand_all_fragments(fragment.selection_set), at_type.selections)

ValidatorOver(ss) == Some(from_selection_set_validator(ss))

\* C20 as stated: the validator of a restriction is None when the condition
\* of the fragment is an object type; for the other conditions it is None
\* when the trimmed part is empty and the validator of the trimmed part
\* when it is not.
C20_ValidatorOfTrimmedPartUnlessObject ==
    applied.op = "expanded_selection_set_at_type" =>
        LET trimmed == TrimmedPart(applied.fragment, applied.at_type)
        IN  applied.at_type.validator =
                IF is_object_type(applied.fragment.type_condition_position) THEN None
                ELSE IF trimmed.selections = <<>> THEN None
                ELSE ValidatorOver(trimmed)

\* C20: the validator of a restriction is the validator of the whole
\* expanded selection set of the fragment when the condition is not an
\* object type; for an object condition it is None when the trimmed part is
\* empty and the validator of the trimmed part when it is not.
C20_ValidatorOfTrimmedPartIfObject ==
    applied.op = "expanded_selection_set_at_type" =>
        LET trimmed == TrimmedPart(applied.fragment, applied.at_type)
        IN  applied.at_type.validator =
                IF ~is_object_type(applied.fragment.type_condition_position)
                THEN ValidatorOver(expand_all_fragments(applied.fragment.selection_set))
                ELSE IF trimmed.selections = <<>> THEN None
                ELSE ValidatorOver(trimmed)

\* A fragment on an interface was restricted at the interface: nothing is
\* trimmed and the restriction has a validator.
C20_Witness ==
    /\ applied.op = "expanded_selection_set_at_type"
    /\ ~is_object_type(applied.fragment.type_condition_position)
    /\ TrimmedPart(applied.fragment, applied.at_type).selections = <<>>
    /\ applied.at_type.validator # None

\* A fragment on an object type whose restriction trims an inline fragment
\* has the validator of the trimmed part.
C20_WitnessObject ==
    /\ applied.op = "expanded_selection_set_at_type"
    /\ is_object_type(applied.fragment.type_condition_position)
    /\ applied.at_type.validator # None

\* A fragment on an abstract type whose restriction trims a branch.
C20_WitnessTrimmed ==
    /\ applied.op = "expanded_selection_set_at_type"
    /\ ~is_object_type(applied.fragment.type_condition_position)
    /\ TrimmedPart(applied.fragment, applied.at_type).selections # <<>>
    /\ applied.at_type.validator
          # ValidatorOver(TrimmedPart(applied.fragment, applied.at_type))
(***************************************************************************)
(* C21: check_can_reuse_fragment_and_track_it returns true exactly when    *)
(* the validator of the restriction merges with every branch validator    *)
(* and with every validator recorded at the level (a restriction without  *)
(* validator is accepted); an accepted validator is appended to the       *)
(* recorded list, and the list is unchanged on a rejection and for a      *)
(* restriction without validator.  The branch validators never change.    *)
(***************************************************************************)
MergesWithAll(validator, mb) ==
    /\ \A b \in mb.validators : do_merge_with(b, validator)
    /\ \A i \in DOMAIN mb.used_spread_trimmed_part_at_level :
          do_merge_with(mb.used_spread_trimmed_part_at_level[i], validator)

C21_AcceptsIffMergesAndTracks ==
    applied.op = "check_can_reuse_fragment_and_track_it" =>
        LET restriction == applied.fragment_restriction.validator
            recorded == applied.validator.used_spread_trimmed_part_at_level
        IN  /\ applied.tracked.validators = applied.validator.validators
            /\ IF restriction = None
               THEN /\ applied.accepted
                    /\ applied.tracked.used_spread_trimmed_part_at_level = recorded
               ELSE /\ applied.accepted = MergesWithAll(restriction[1], applied.validator)
                    /\ applied.tracked.used_spread_trimmed_part_at_level =
                          IF applied.accepted THEN Append(recorded, restriction[1])
                          ELSE recorded

\* A validator is appended after one already recorded.
C21_Witness ==
    /\ applied.op = "check_can_reuse_fragment_and_track_it"
    /\ applied.accepted
    /\ applied.fragment_restriction.validator # None
    /\ Len(applied.validator.used_spread_trimmed_part_at_level) = 1
    /\ Len(applied.tracked.used_spread_trimmed_part_at_level) = 2

\* A rejection caused by a recorded validator alone.
C21_WitnessRejected ==
    /\ applied.op = "check_can_reuse_fragment_and_track_it"
    /\ ~applied.accepted
    /\ do_merge_with_all(applied.fragment_restriction.validator[1],
                         applied.validator.validators)
    /\ applied.tracked = applied.validator

\* A restriction without validator.
C21_WitnessNoValidator ==
    /\ applied.op = "check_can_reuse_fragment_and_track_it"
    /\ applied.fragment_restriction.validator = None
    /\ applied.validator.used_spread_trimmed_part_at_level # <<>>


(***************************************************************************)
(* C22: the full match in inline-fragment and in field context.            *)
(***************************************************************************)
\* The rule of the inline-fragment context with condition t and directives D.
MayFullyMatchInline(fragment, t, D) ==
    \/ fragment.directives = <<>>
    \/ /\ fragment.type_condition_position = t
       /\ \A i \in DOMAIN fragment.directives :
             \E j \in DOMAIN D : D[j] = fragment.directives[i]

\* The candidates whose restriction at the type of site.self equals site.self
\* and that the validator of the site accepts.
EqualAndAccepted ==
    LET candidates == get_all_may_apply_directly_at_type(site.fragments,
                                                         site.self.type_position)
    IN  {candidates[i] : i \in
            {k \in DOMAIN candidates :
                LET at_type == expanded_selection_set_at_type(candidates[k],
                                                              site.self.type_position)
                IN  /\ ~is_useless(at_type)
                    /\ containment(site.self, at_type.selections, TRUE) = "Equal"
                    /\ check_can_reuse_fragment_and_track_it(ValidatorOfSite, at_type)[1]}}

\* A fragment fully matches exactly under the rule of the context.
FullMatchFollowsRule ==
    /\ applied.op = "inline_reuse_fragments_inner" =>
          LET t == applied.self.type_condition
              D == applied.self.directives
          IN  /\ applied.full # None => MayFullyMatchInline(applied.full[1], t, D)
              /\ (\E f \in EqualAndAccepted : MayFullyMatchInline(f, t, D))
                    => applied.full # None
    /\ (applied.op = "try_apply_fragments" /\ applied.condition.for_field) =>
          /\ applied.fragment # None => applied.fragment[1].directives = <<>>
          /\ (\E f \in EqualAndAccepted : f.directives = <<>>) => applied.fragment # None

\* The spread of `fragment` that carries the directives of D not on the fragment.
IsSpreadWithRest(selection, fragment, D) ==
    /\ selection.kind = "FragmentSpread"
    /\ selection.name = fragment.name
    /\ Range(selection.directives) = Range(D) \ Range(fragment.directives)
    /\ Len(selection.directives) = Cardinality(Range(selection.directives))

\* C22 as stated: under the rule above, every accepted full match in
\* inline-fragment context drops the inline fragment for a spread of the
\* fragment with the directives D minus the directives of the fragment.
C22_FullMatchDropsInlineFragment ==
    /\ FullMatchFollowsRule
    /\ (applied.op = "inline_reuse_fragments_inner" /\ applied.full # None) =>
          IsSpreadWithRest(applied.selection, applied.full[1], applied.self.directives)

\* C22 amended: the inline fragment is dropped for that spread when the type
\* condition of the fragment is the one of the inline fragment; otherwise the
\* inline fragment is kept, with its directives D, around a spread of the
\* fragment without directives.
C22_FullMatchDropsInlineFragmentOfSameType ==
    /\ FullMatchFollowsRule
    /\ (applied.op = "inline_reuse_fragments_inner" /\ applied.full # None) =>
          LET fragment == applied.full[1]
          IN  IF fragment.type_condition_position = applied.self.type_condition
              THEN IsSpreadWithRest(applied.selection, fragment, applied.self.directives)
              ELSE /\ applied.selection.kind = "InlineFragment"
                   /\ applied.selection.type_condition = applied.self.type_condition
                   /\ applied.selection.directives = applied.self.directives
                   /\ Len(applied.selection.selection_set[1].selections) = 1
                   /\ IsSpreadWithRest(applied.selection.selection_set[1].selections[1],
                                       fragment, <<>>)

\* ... on A @other @dir { x } becomes ...FragXD @other.
C22_Witness ==
    /\ applied.op = "inline_reuse_fragments_inner"
    /\ applied.full # None
    /\ applied.full[1].directives = <<"dir">>
    /\ applied.self.directives = <<"other", "dir">>
    /\ applied.selection.kind = "FragmentSpread"
    /\ applied.selection.directives = <<"other">>

\* ... on A @dir { x } becomes ... on A @dir { ...FragU1 }.
C22_WitnessKept ==
    /\ applied.op = "inline_reuse_fragments_inner"
    /\ applied.full # None
    /\ applied.full[1].type_condition_position # applied.self.type_condition
    /\ applied.self.directives = <<"dir">>
    /\ applied.selection.kind = "InlineFragment"

\* A fragment with directives that equals the selection set is not a full
\* match: under another type condition, or in field context.
C22_WitnessRefused ==
    /\ applied.op = "inline_reuse_fragments_inner"
    /\ applied.full = None
    /\ FragUD \in EqualAndAccepted
    /\ applied.self.directives = <<"dir">>

C22_WitnessField ==
    /\ applied.op = "try_apply_fragments"
    /\ applied.condition.for_field
    /\ applied.fragment = None
    /\ FragXD \in EqualAndAccepted

(***************************************************************************)
(* SpecReduce: NamedFragments::reduce and reduce_inner on the catalogs in  *)
(* dependency order and the selection sets that spread their fragments.    *)
(***************************************************************************)
MaxReduced == 3

\* fragment FragJ on I { a { ...FragX } b: a { ...FragX } }
FragJ ==
    Fragment("FragJ", "I",
        <<FieldA(<<from_fragment(FragX, NoDirectives)>>),
          FieldSel("b", "a", 0, NoDirectives,
                   Some(SelSet("A", <<from_fragment(FragX, NoDirectives)>>)))>>)

\* fragment FragK on I { i { ...FragI } }
FragK == Fragment("FragK", "I", <<FieldI("i", <<from_fragment(FragI, NoDirectives)>>)>>)

PoolOfReduce == <<FragX, FragA, FragI, FragJ, FragD, FragK>>

CatalogsOfReduce ==
    {catalog \in {SubPool(PoolOfReduce, chosen) :
                     chosen \in {c \in SUBSET Names(PoolOfReduce) :
                                    Cardinality(c) <= MaxReduced}} :
        Closed(catalog)}

\* What `i` and `j` can select: spreads of the fragments, alone or under a
\* field or an inline fragment, and a field without spread.
ItemsOfReduce ==
    <<from_fragment(FragI, NoDirectives), from_fragment(FragJ, NoDirectives),
      from_fragment(FragK, NoDirectives),
      OnType("T1", <<from_fragment(FragD, NoDirectives)>>),
      FieldA(<<from_fragment(FragA, NoDirectives)>>),
      FieldSel("b", "a", 0, NoDirectives,
               Some(SelSet("A", <<from_fragment(FragX, NoDirectives)>>))),
      FieldSel("c", "a", 0, NoDirectives, Some(SelSet("A", <<Leaf("x", 0)>>)))>>

BodiesOfReduce(catalog) ==
    LET usable == {k \in DOMAIN ItemsOfReduce :
                      SpreadNames(SelSet("I", <<ItemsOfReduce[k]>>)) \subseteq Names(catalog)}
    IN  {<<ItemsOfReduce[k]>> : k \in usable}
        \cup {<<ItemsOfReduce[p[1]], ItemsOfReduce[p[2]]>> :
                 p \in {q \in usable \X usable : q[1] < q[2]}}

SelvesOfReduce(catalog) ==
    {SelSet("Query", <<FieldI("i", b1)>> \o b2) :
        b1 \in BodiesOfReduce(catalog),
        b2 \in {<<>>} \cup {<<FieldI("j", b)>> :
                              b \in {c \in BodiesOfReduce(catalog) : Len(c) = 1}}}

MinUsagesOfReduce == {1, DEFAULT_MIN_USAGES_TO_OPTIMIZE}

InitReduce ==
    /\ \E catalog \in CatalogsOfReduce :
          site \in [self : SelvesOfReduce(catalog), fragments : {catalog}, tracked : {<<>>}]
    /\ applied = NoApplied
    /\ MapFrozen
    /\ AlgebraFrozen
    /\ EngineFrozen

\* site.fragments.reduce_inner(&site.self, min_usage_to_optimize)
ReduceInner(min_usage_to_optimize) ==
    /\ site.fragments # <<>>
    /\ \E result \in {reduce_inner(site.fragments, site.self, min_usage_to_optimize)} :
          applied' = [op |-> "reduce_inner", min_usage_to_optimize |-> min_usage_to_optimize,
                      fragments |-> result.fragments,
                      selection_set |-> result.selection_set, sizes |-> <<>>]
    /\ UNCHANGED site
    /\ MapUnchanged
    /\ AlgebraUnchanged
    /\ EngineUnchanged

\* site.fragments.reduce(&site.self, min_usage_to_optimize)
Reduce(min_usage_to_optimize) ==
    /\ \E result \in {reduce(site.fragments, site.self, min_usage_to_optimize)} :
          applied' = [op |-> "reduce", min_usage_to_optimize |-> min_usage_to_optimize,
                      fragments |-> result.fragments,
                      selection_set |-> result.selection_set, sizes |-> result.sizes]
    /\ UNCHANGED site
    /\ MapUnchanged
    /\ AlgebraUnchanged
    /\ EngineUnchanged

\* site.fragments.add_typename_field_for_abstract_types_in_named_fragments()
AddTypenameFieldForAbstractTypesInNamedFragments ==
    /\ \E result \in {add_typename_field_for_abstract_types_in_named_fragments(site.fragments)} :
          applied' = [op |-> "add_typename_field_for_abstract_types_in_named_fragments",
                      ok |-> result.ok, fragments |-> result.fragments]
    /\ UNCHANGED site
    /\ MapUnchanged
    /\ AlgebraUnchanged
    /\ EngineUnchanged

NextReduce ==
    \/ \E min_usage_to_optimize \in MinUsagesOfReduce : ReduceInner(min_usage_to_optimize)
    \/ \E min_usage_to_optimize \in MinUsagesOfReduce : Reduce(min_usage_to_optimize)
    \/ AddTypenameFieldForAbstractTypesInNamedFragments

SpecReduce == InitReduce /\ [][NextReduce]_vars

(***************************************************************************)
(* C23: one pass of the reducer.                                           *)
(***************************************************************************)
\* The count of the k-th fragment of the catalog when it is visited: its
\* spreads in the selection set, plus for each later fragment F that spreads
\* it c times, c when the count of F is at least m, else c times that count.
CountAtVisit(catalog, ss, m) ==
    LET count[k \in DOMAIN catalog] ==
            LET from[f \in k..Len(catalog)] ==
                    IF f = k THEN UsageCount(ss, catalog[k].name)
                    ELSE from[f - 1]
                         + UsageCount(catalog[f].selection_set, catalog[k].name)
                           * (IF count[f] >= m THEN 1 ELSE count[f])
            IN  from[Len(catalog)]
    IN  count

\* The fragments that spread catalog[k], by index.
UsersOf(catalog, k) ==
    {f \in DOMAIN catalog : UsageCount(catalog[f].selection_set, catalog[k].name) > 0}

\* C23: the pass retains exactly the fragments whose count is at least m, in
\* the order of the catalog; a fragment spread only in fragments of count 0
\* is dropped; with m = 2 a fragment spread once in a retained fragment and
\* nowhere else is dropped and the retained fragment spreads it no more.
C23_PassRetainsByCount ==
    applied.op = "reduce_inner" =>
        LET catalog == site.fragments
            m == applied.min_usage_to_optimize
            count == CountAtVisit(catalog, site.self, m)
            kept == {k \in DOMAIN catalog : count[k] >= m}
        IN  /\ [i \in DOMAIN applied.fragments |-> applied.fragments[i].name]
                  = [i \in 1..Cardinality(kept) |->
                        catalog[CHOOSE k \in kept :
                                   Cardinality({h \in kept : h < k}) = i - 1].name]
            /\ \A k \in DOMAIN catalog :
                  (/\ UsageCount(site.self, catalog[k].name) = 0
                   /\ \A f \in UsersOf(catalog, k) : count[f] = 0)
                      => catalog[k].name \notin Names(applied.fragments)
            /\ \A k \in DOMAIN catalog, f \in DOMAIN catalog :
                  (/\ m = 2
                   /\ count[f] >= m
                   /\ UsersOf(catalog, k) = {f}
                   /\ UsageCount(catalog[f].selection_set, catalog[k].name) = 1
                   /\ UsageCount(site.self, catalog[k].name) = 0)
                      => /\ catalog[k].name \notin Names(applied.fragments)
                         /\ \A i \in DOMAIN applied.fragments :
                               UsageCount(applied.fragments[i].selection_set,
                                          catalog[k].name) = 0

\* A dropped fragment of count 1 that spreads another twice keeps that one.
C23_Witness ==
    /\ applied.op = "reduce_inner"
    /\ applied.min_usage_to_optimize = 2
    /\ UsageCount(site.self, "FragJ") = 1
    /\ UsageCount(site.self, "FragX") = 0
    /\ Names(applied.fragments) = {"FragX"}

\* A fragment spread only in a fragment of count 0 is dropped.
C23_WitnessUnused ==
    /\ applied.op = "reduce_inner"
    /\ Names(site.fragments) = {"FragX", "FragA", "FragJ"}
    /\ UsageCount(site.self, "FragJ") = 0
    /\ UsageCount(site.self, "FragX") = 0
    /\ Names(applied.fragments) = {"FragA"}

\* With m = 2 FragA, spread once in the retained FragI, is inlined.
C23_WitnessInlined ==
    /\ applied.op = "reduce_inner"
    /\ applied.min_usage_to_optimize = 2
    /\ UsageCount(site.self, "FragA") = 0
    /\ Names(applied.fragments) = {"FragI"}
    /\ Names(site.fragments) = {"FragA", "FragI"}

(***************************************************************************)
(* C24: NamedFragments::reduce ends after at most |N| + 1 passes, each     *)
(* pass but the last strictly shrinks the catalog, and one more pass on    *)
(* what it returns drops no fragment and returns the same selection set.   *)
(***************************************************************************)
\* The length of the catalog before the k-th pass.
SizeBefore(k) == IF k = 1 THEN Len(site.fragments) ELSE applied.sizes[k - 1]

C24_ReduceReachesFixPoint ==
    applied.op = "reduce" =>
        /\ Len(applied.sizes) <= Len(site.fragments) + 1
        /\ \A k \in DOMAIN applied.sizes :
              /\ applied.sizes[k] <= SizeBefore(k)
              /\ k < Len(applied.sizes) => applied.sizes[k] < SizeBefore(k)
        /\ site.fragments # <<>> =>
              /\ applied.sizes # <<>>
              /\ Len(applied.fragments) = applied.sizes[Len(applied.sizes)]
        /\ LET further == reduce_inner(applied.fragments, applied.selection_set,
                                       applied.min_usage_to_optimize)
           IN  /\ further.fragments = applied.fragments
               /\ further.selection_set = applied.selection_set

\* Two passes shrink the catalog and a third finds the fix-point.
C24_Witness ==
    /\ applied.op = "reduce"
    /\ Len(applied.sizes) = 3
    /\ applied.sizes[2] < applied.sizes[1]
    /\ applied.sizes[3] = applied.sizes[2]
    /\ applied.fragments # <<>>

\* The second pass empties the catalog, which ends the loop.
C24_WitnessEmptied ==
    /\ applied.op = "reduce"
    /\ Len(applied.sizes) = 2
    /\ applied.sizes[1] > 0
    /\ applied.sizes[2] = 0

(***************************************************************************)
(* C28: after a pass of the reducer and after reduce, every fragment       *)
(* spread of the returned selection set and of the bodies of the retained  *)
(* fragments names a fragment of the returned catalog, also when the pass  *)
(* dropped the whole catalog because the selection set spreads nothing.    *)
(***************************************************************************)
\* The names of the fragments spread in the tree `ss`.
SpreadIn(ss) == {name \in Names(PoolOfReduce) : UsageCount(ss, name) > 0}

C28_NoDanglingSpread ==
    applied.op \in {"reduce_inner", "reduce"} =>
        /\ SpreadIn(applied.selection_set) \subseteq Names(applied.fragments)
        /\ \A i \in DOMAIN applied.fragments :
              SpreadIn(applied.fragments[i].selection_set) \subseteq Names(applied.fragments)

\* FragK, which spreads FragI, which spreads FragA, is expanded, and so are
\* the spreads its body brings.
C28_Witness ==
    /\ applied.op = "reduce"
    /\ Names(site.fragments) = {"FragA", "FragI", "FragK"}
    /\ UsageCount(site.self, "FragK") = 1
    /\ UsageCount(site.self, "FragA") = 2
    /\ Names(applied.fragments) = {"FragA"}
    /\ UsageCount(applied.selection_set, "FragA") = 3

\* The selection set spreads nothing: the pass drops the whole catalog.
C28_WitnessShortCircuit ==
    /\ applied.op = "reduce_inner"
    /\ SpreadIn(site.self) = {}
    /\ Len(site.fragments) = MaxReduced
    /\ applied.fragments = <<>>
    /\ applied.selection_set = site.self

(***************************************************************************)
(* C26: entry(key) followed by or_insert.  On a vacant entry a value whose *)
(* key is not the requested key is refused with an error and the map is    *)
(* left as it was; a value with the requested key is appended at the end   *)
(* and found under the key.  On an occupied entry the stored value is      *)
(* returned, the producer is not called and the map is left as it was.     *)
(***************************************************************************)
C26_VacantInsertChecksKey ==
    [][last'.op = "or_insert" =>
          LET m == last'.m
              key == last'.key
              value == last'.sel
          IN  /\ maps'[3 - m] = maps[3 - m]
              /\ IF contains_key(maps[m], key)
                 THEN /\ last'.found /\ last'.ok /\ ~last'.produced
                      /\ last'.old # {}
                      /\ last'.old \subseteq Range(values(maps[m]))
                      /\ \A old \in last'.old : Key(old) = key
                      /\ maps'[m] = maps[m]
                 ELSE IF key # Key(value)
                 THEN /\ ~last'.ok
                      /\ len(maps'[m]) = len(maps[m])
                      /\ values(maps'[m]) = values(maps[m])
                      /\ \A k \in MapKeys : get(maps'[m], k) = get(maps[m], k)
                 ELSE /\ last'.ok /\ last'.produced
                      /\ values(maps'[m]) = Append(values(maps[m]), value)
                      /\ get(maps'[m], key) = {value}
                      /\ \A k \in MapKeys \ {key} : get(maps'[m], k) = get(maps[m], k)]_vars

\* A refused insert into a map that holds a selection.
C26_Witness ==
    /\ last.op = "or_insert"
    /\ ~last.ok
    /\ last.prev_len = 1
    /\ len(maps[last.m]) = 1

\* An accepted insert after a stored selection.
C26_WitnessAppended ==
    /\ last.op = "or_insert"
    /\ last.ok /\ last.produced
    /\ last.prev_len = 1
    /\ values(maps[last.m])[2] = last.sel

\* An occupied entry: the producer's value, of another argument, is not stored.
C26_WitnessOccupied ==
    /\ last.op = "or_insert"
    /\ last.found
    /\ last.sel \notin Range(values(maps[last.m]))
    /\ ~last.produced

(***************************************************************************)
(* C27: on maps whose stored keys are distinct, the table and the vector   *)
(* agree after insert, remove and retain.                                  *)
(***************************************************************************)
DistinctKeys(map) ==
    \A i, j \in DOMAIN map.selections :
        i # j => Key(map.selections[i]) # Key(map.selections[j])

\* One index per stored selection, and every lookup finds the stored
\* selection of that key or nothing.
TableAgrees(map) ==
    /\ map.table = DOMAIN map.selections
    /\ Cardinality(map.table) = len(map)
    /\ \A i \in DOMAIN map.selections :
          /\ get(map, Key(map.selections[i])) = {map.selections[i]}
          /\ contains_key(map, Key(map.selections[i]))
    /\ \A k \in MapKeys \ KeysOf(map.selections) :
          get(map, k) = {} /\ ~contains_key(map, k)

\* The position in iteration order of the selection stored under `key`.
PositionOf(map, key) == CHOOSE i \in DOMAIN map.selections : Key(map.selections[i]) = key

C27_WitnessRetain ==
    /\ last.op = "retain"
    /\ last.prev_len = 2
    /\ len(maps[last.m]) = 1
    /\ maps[last.m].table = {1}

\* remove of an absent key.
C27_WitnessAbsent ==
    /\ last.op = "remove"
    /\ ~last.found
    /\ len(maps[last.m]) = 1

(***************************************************************************)
(* SpecGenerate: Operation::generate_fragments on operations               *)
(*   query { i { ... } j { ... } }                                         *)
(* whose fields select inline fragments on T, T1 and T2.                   *)
(***************************************************************************)
\* ... on T { f1 f2 ... f11 }
ElevenLeaves == [k \in 1..11 |-> Leaf("f" \o ToString(k), 0)]

\* ... on A { x y }
InnerOnA == OnType("A", <<Leaf("x", 0), Leaf("y", 0)>>)

ItemsOfGenerate ==
    <<OnType("T1", <<Leaf("x", 0)>>),
      OnType("T1", <<Leaf("x", 0), Leaf("y", 0)>>),
      OnType("T1", <<Leaf("x", 0), Leaf("z", 0)>>),
      OnType("T1", <<FieldA(<<Leaf("x", 0)>>)>>),
      OnType("T1", <<FieldA(<<InnerOnA>>)>>),
      OnType("T2", <<FieldA(<<InnerOnA>>), Leaf("x", 0)>>),
      InlineSel("T2", <<"include(if: $v)">>,
                SelSet("T2", <<Leaf("x", 0), Leaf("y", 0)>>)),
      InlineSel("T2", <<"dir">>, SelSet("T2", <<FieldA(<<InnerOnA>>)>>)),
      OnType("T", ElevenLeaves)>>

\* One item, or two items of different keys in either order.
BodiesOfGenerate ==
    {<<ItemsOfGenerate[k]>> : k \in DOMAIN ItemsOfGenerate}
    \cup {<<ItemsOfGenerate[p[1]], ItemsOfGenerate[p[2]]>> :
             p \in {q \in (DOMAIN ItemsOfGenerate) \X (DOMAIN ItemsOfGenerate) :
                       Key(ItemsOfGenerate[q[1]]) # Key(ItemsOfGenerate[q[2]])}}

OperationsOfGenerate ==
    {[selection_set |->
          SelSet("Query", <<FieldI("i", b1)>> \o b2),
      named_fragments |-> <<>>, variables |-> {"v"},
      name |-> None, root_kind |-> "query", directives |-> NoDirectives]
     : b1 \in BodiesOfGenerate,
       b2 \in {<<>>} \cup {<<FieldI("j", <<ItemsOfGenerate[k]>>)>> :
                              k \in DOMAIN ItemsOfGenerate}}

InitGenerate ==
    /\ operation \in OperationsOfGenerate
    /\ given = <<>>
    /\ before = operation.selection_set
    /\ outcome = NoOutcome
    /\ calls = 0
    /\ MapFrozen
    /\ AlgebraFrozen
    /\ MatcherFrozen

\* operation.generate_fragments()
GenerateFragments ==
    /\ \E generated \in {generate_fragments(operation)} :
          Call([ok |-> TRUE, operation |-> generated], 0)
    /\ UNCHANGED given

NextGenerate == GenerateFragments

SpecGenerate == InitGenerate /\ [][NextGenerate]_vars

(***************************************************************************)
(* C29: the names of the generated fragments.                              *)
(***************************************************************************)
\* The spreads of the tree `ss`, those under fields and inline fragments
\* included, those of the bodies of spreads not.
RECURSIVE SpreadsOf(_)
SpreadsOf(ss) ==
    UNION {LET sel == ss.selections[i]
           IN  IF sel.kind = "FragmentSpread" THEN {sel}
               ELSE IF sel.selection_set = None THEN {}
               ELSE SpreadsOf(sel.selection_set[1])
           : i \in DOMAIN ss.selections}

\* The spreads generate_fragments has introduced in the operation and in the
\* bodies of the generated fragments.
GeneratedSpreads ==
    SpreadsOf(operation.selection_set)
    \cup UNION {SpreadsOf(operation.named_fragments[i].selection_set) :
                   i \in DOMAIN operation.named_fragments}

Generated == calls = 1 /\ outcome.ok

\* C29: two hoisted inline fragments that differ in type condition or in
\* selection set are spread under different names, and each name is that of
\* the catalog fragment with the type condition and the selection set of
\* the hoisted inline fragment: no insertion has replaced a fragment.
C29_GeneratedNamesAreDistinct ==
    Generated =>
        /\ \A s, t \in GeneratedSpreads :
              s.name = t.name =>
                  /\ s.type_condition = t.type_condition
                  /\ SetEq(s.selection_set[1], t.selection_set[1])
        /\ \A s \in GeneratedSpreads :
              \E i \in DOMAIN operation.named_fragments :
                  /\ operation.named_fragments[i].name = s.name
                  /\ operation.named_fragments[i].type_condition_position = s.type_condition
                  /\ SetEq(operation.named_fragments[i].selection_set, s.selection_set[1])

(***************************************************************************)
(* C25: what generate_fragments hoists.                                    *)
(***************************************************************************)
\* The inline fragments of the tree `ss`, those under fields and inline
\* fragments included.
RECURSIVE InlineFragmentsOf(_)
InlineFragmentsOf(ss) ==
    UNION {LET sel == ss.selections[i]
           IN  IF sel.kind = "FragmentSpread" \/ sel.selection_set = None THEN {}
               ELSE IF sel.kind = "InlineFragment"
               THEN {sel} \cup InlineFragmentsOf(sel.selection_set[1])
               ELSE InlineFragmentsOf(sel.selection_set[1])
           : i \in DOMAIN ss.selections}

\* The inline fragments generate_fragments has left in the operation and in
\* the bodies of the generated fragments.
KeptInline ==
    InlineFragmentsOf(operation.selection_set)
    \cup UNION {InlineFragmentsOf(operation.named_fragments[i].selection_set) :
                   i \in DOMAIN operation.named_fragments}

HasOtherDirective(selection) ==
    \E i \in DOMAIN selection.directives : ~IsSkipOrInclude(selection.directives[i])

\* C25: after generate_fragments an inline fragment is left inline only if
\* it is not worth using or carries a directive other than @skip/@include,
\* every introduced spread carries nothing but @skip/@include directives,
\* and no two generated fragments have the same type condition and the same
\* selection set.
C25_HoistsWorthUsingInlineFragments ==
    Generated =>
        /\ \A kept \in KeptInline :
              ~is_worth_using(kept.selection_set[1]) \/ HasOtherDirective(kept)
        /\ \A s \in GeneratedSpreads : ~HasOtherDirective(s)
        /\ \A i, j \in DOMAIN operation.named_fragments :
              (/\ operation.named_fragments[i].type_condition_position
                     = operation.named_fragments[j].type_condition_position
               /\ SetEq(operation.named_fragments[i].selection_set,
                        operation.named_fragments[j].selection_set)) => i = j

(***************************************************************************)
(* C30: the order of the catalogs.                                         *)
(***************************************************************************)
\* Each fragment of `catalog` spreads only fragments that stand before it.
InDependencyOrder(catalog) ==
    \A i \in DOMAIN catalog :
        \A s \in SpreadsOf(catalog[i].selection_set) :
            \E j \in 1..(i - 1) : catalog[j].name = s.name

\* C30, for NamedFragments::reduce and reduce_inner: the catalog returned
\* for a catalog in dependency order is in dependency order.
ReducedCatalogInDependencyOrder ==
    (applied.op \in {"reduce", "reduce_inner"} /\ InDependencyOrder(site.fragments))
        => InDependencyOrder(applied.fragments)

\* C30, for add_typename_field_for_abstract_types_in_named_fragments: the
\* catalog returned has the names of the input in the same order and is in
\* dependency order.
TypenameCatalogKeepsNamesAndOrder ==
    (/\ applied.op = "add_typename_field_for_abstract_types_in_named_fragments"
     /\ applied.ok
     /\ InDependencyOrder(site.fragments))
        => /\ [i \in DOMAIN applied.fragments |-> applied.fragments[i].name]
                = [i \in DOMAIN site.fragments |-> site.fragments[i].name]
           /\ InDependencyOrder(applied.fragments)

====
